---- MODULE Spec2Model ----
(***************************************************************************)
(* SplitBill: the bill-splitting page (src/src/pages/index.vue).           *)
(*                                                                         *)
(* Numbers.  Money (price, tax, total and every amount derived from them)  *)
(* is kept in hundredths of the currency unit, so 15.00 is 1500; item      *)
(* quantities and shares are whole numbers.  What the allocation derives   *)
(* is an exact rational <<numerator, denominator>> in lowest terms, and a  *)
(* division by zero gives a rational with denominator 0 (JavaScript's      *)
(* Infinity and NaN).  IEEE doubles are thus modelled without their        *)
(* representation error: the "within floating-point epsilon" reading of    *)
(* the specification's equalities.                                         *)
(*                                                                         *)
(* Arrays are sequences: the JavaScript index i is position i + 1.  The    *)
(* assignment map keeps the JavaScript keys (0-based) as they are.         *)
(***************************************************************************)
EXTENDS Integers, Sequences, FiniteSets, TLC

VARIABLES
  currentStep,              \* 'landing' | 'upload' | 'participants' | 'review' | 'assign' | 'results'
  file,                     \* TRUE when a receipt image is selected
  isParsingInBackground,
  parseProgress,            \* 'idle' | 'uploading' | 'parsing' | 'complete' | 'error'
  receipt,                  \* NullReceipt or [items, tax, total]
  participants,             \* sequence of names as typed
  itemAssignments,          \* item index -> (participant index -> share)
  splitResults,             \* NullResults or the settlement
  error,                    \* NoError or a message
  selectedParticipantIndex, \* NullIndex or an index
  pending,                  \* /api/parse requests that have not settled yet
  lastOp                    \* the handler that ran last (history, read by no handler)

vars == <<currentStep, file, isParsingInBackground, parseProgress, receipt,
          participants, itemAssignments, splitResults, error,
          selectedParticipantIndex, pending, lastOp>>

(***************************************************************************)
(* Bounds of the model.                                                    *)
(***************************************************************************)
\* the page specifications: slots, items, share of one pair, requests in flight
PageParticipants == 2
PageItems == 2
PageShare == 2
MaxPending == 1
\* the specifications that draw a state of the assign step: items plus
\* participant slots, and the share of one pair
MaxSize == 4
MaxShare == 2

(***************************************************************************)
(* null / undefined.                                                       *)
(***************************************************************************)
NullReceipt == [null |-> TRUE]
NullResults == [null |-> TRUE]
NoError == "null"
NullIndex == -1
TaxMissing == -1

\* x || 0 for a tax that may be undefined
Or0(x) == IF x = TaxMissing THEN 0 ELSE x

(***************************************************************************)
(* Exact rationals.                                                        *)
(***************************************************************************)
RECURSIVE Gcd(_, _)
Gcd(a, b) == IF b = 0 THEN a ELSE Gcd(b, a % b)

Abs(n) == IF n < 0 THEN -n ELSE n

Sign(n) == IF n > 0 THEN 1 ELSE IF n < 0 THEN -1 ELSE 0

\* n / d in lowest terms with d > 0; n / 0 is <<Sign(n), 0>>
Rat(n, d) ==
  IF d = 0 THEN <<Sign(n), 0>>
  ELSE LET g == Gcd(Abs(n), Abs(d))
       IN  <<Sign(d) * (n \div g), Abs(d) \div g>>

RInt(n) == <<n, 1>>
RZero == <<0, 1>>
RAdd(x, y) == Rat(x[1] * y[2] + y[1] * x[2], x[2] * y[2])
RSub(x, y) == Rat(x[1] * y[2] - y[1] * x[2], x[2] * y[2])
RMul(x, y) == Rat(x[1] * y[1], x[2] * y[2])
\* x / y
RDiv(x, y) == Rat(x[1] * y[2], x[2] * y[1])
RLeq(x, y) == x[1] * y[2] <= y[1] * x[2]
RAbs(x) == <<Abs(x[1]), x[2]>>

\* Math.round of a finite number: the nearest integer, a half rounds up
MathRound(x) == (2 * x[1] + x[2]) \div (2 * x[2])

\* a variant of Round2: Math.floor in place of Math.round
Round2Down(x) == IF x[2] = 0 THEN x ELSE RInt(x[1] \div x[2])

\* Math.round(x * 100) / 100 of an amount kept in hundredths: the nearest
\* whole hundredth (NaN and Infinity stay what they are)
Round2(x) == IF x[2] = 0 THEN x ELSE RInt(MathRound(x))

RECURSIVE RSumSeq(_)
RSumSeq(s) == IF s = <<>> THEN RZero ELSE RAdd(s[1], RSumSeq(Tail(s)))

(***************************************************************************)
(* Objects with integer keys.                                              *)
(***************************************************************************)
EmptyMap == <<>>
Put(m, k, v) == [x \in DOMAIN m \cup {k} |-> IF x = k THEN v ELSE m[x]]
Del(m, k) == [x \in DOMAIN m \ {k} |-> m[x]]
\* m[k] || 0  (also m[k] || {} when the default is a map)
GetOr(m, k, d) == IF k \in DOMAIN m THEN m[k] ELSE d

RECURSIVE SumOver(_, _)
SumOver(m, ks) ==
  IF ks = {} THEN 0
  ELSE LET k == CHOOSE x \in ks : TRUE
       IN  m[k] + SumOver(m, ks \ {k})

\* Object.values(m).reduce((sum, qty) => sum + qty, 0)
SumValues(m) == SumOver(m, DOMAIN m)

(***************************************************************************)
(* Names.                                                                  *)
(***************************************************************************)
\* String.prototype.trim on the names the model types
Trim(name) == IF name = " " THEN "" ELSE name

\* participants.filter((p) => p.trim())
ValidParticipants(ps) == SelectSeq(ps, LAMBDA p : Trim(p) # "")

(***************************************************************************)
(* The allocation: participantTotals and calculateSplit.                   *)
(***************************************************************************)
At(a, i) == a[i + 1]

\* items.reduce((sum, item) => sum + item.price * item.quantity, 0)
RECURSIVE Subtotal(_)
Subtotal(items) ==
  IF items = <<>> THEN 0
  ELSE items[1].price * items[1].quantity + Subtotal(Tail(items))

\* participantTotals, lines 196-200: one participant's cost of one item
PreviewItemCost(assignments, quantity, item) ==
  LET totalAssignedQty == SumValues(assignments)
      totalItemCost == item.price * item.quantity
  IN  IF totalAssignedQty > 0
        THEN RMul(Rat(quantity, totalAssignedQty), RInt(totalItemCost))
        ELSE RZero

\* participantTotals, lines 185-203: itemsTotal of the slot pIndex, items k..
RECURSIVE PreviewItemsTotal(_, _, _, _)
PreviewItemsTotal(items, asg, pIndex, k) ==
  IF k > Len(items) THEN RZero
  ELSE LET assignments == GetOr(asg, k - 1, EmptyMap)
           quantity == GetOr(assignments, pIndex, 0)
           rest == PreviewItemsTotal(items, asg, pIndex, k + 1)
       IN  IF quantity > 0
             THEN RAdd(PreviewItemCost(assignments, quantity, items[k]), rest)
             ELSE rest

\* a variant of PreviewTaxPortion: the division without its guard
PreviewTaxPortionUnguarded(subtotal, itemsTotal, tax) ==
  RMul(RDiv(itemsTotal, RInt(subtotal)), RInt(Or0(tax)))

\* participantTotals, lines 205-208
PreviewTaxPortion(subtotal, itemsTotal, tax) ==
  IF subtotal > 0
    THEN RMul(RDiv(itemsTotal, RInt(subtotal)), RInt(Or0(tax)))
    ELSE RZero

\* participantTotals: one row per slot of participants, blank or not
ParticipantTotalsOf(r, ps, asg) ==
  IF r = NullReceipt THEN <<>>
  ELSE LET subtotal == Subtotal(r.items)
       IN  [k \in 1..Len(ps) |->
             LET itemsTotal == PreviewItemsTotal(r.items, asg, k - 1, 1)
                 taxPortion == PreviewTaxPortion(subtotal, itemsTotal, r.tax)
             IN  [name |-> Trim(ps[k]),
                  total |-> RAdd(itemsTotal, taxPortion),
                  itemsTotal |-> itemsTotal,
                  taxPortion |-> taxPortion]]

participantTotals == ParticipantTotalsOf(receipt, participants, itemAssignments)

\* a variant of SplitItemCost: the share taken over the item's nominal quantity
SplitItemCostPerUnit(assignments, quantity, item) ==
  RMul(Rat(quantity, item.quantity), RInt(item.price * item.quantity))

\* calculateSplit, lines 534-538
SplitItemCost(assignments, quantity, item) ==
  LET totalAssignedQty == SumValues(assignments)
      totalItemCost == item.price * item.quantity
  IN  IF totalAssignedQty > 0
        THEN RMul(Rat(quantity, totalAssignedQty), RInt(totalItemCost))
        ELSE RZero

\* calculateSplit, lines 522-546: the item lines of the valid participant
\* pIndex, items k..; the label `${item.name} (x${quantity})` is kept as its
\* two parts
RECURSIVE SplitLines(_, _, _, _)
SplitLines(items, asg, pIndex, k) ==
  IF k > Len(items) THEN <<>>
  ELSE LET assignments == GetOr(asg, k - 1, EmptyMap)
           quantity == GetOr(assignments, pIndex, 0)
           rest == SplitLines(items, asg, pIndex, k + 1)
       IN  IF quantity > 0
             THEN <<[name |-> <<items[k].name, quantity>>,
                     cost |-> SplitItemCost(assignments, quantity, items[k]),
                     sharedWith |-> Cardinality(DOMAIN assignments)]>> \o rest
             ELSE rest

LineCosts(lines) == [j \in 1..Len(lines) |-> lines[j].cost]

\* a variant of SplitTaxPortion: the whole tax to whoever owes anything
SplitTaxPortionWhole(subtotal, itemsTotal, tax) ==
  IF subtotal > 0 /\ itemsTotal # RZero THEN RInt(Or0(tax)) ELSE RZero

\* calculateSplit, lines 548-551
SplitTaxPortion(subtotal, itemsTotal, tax) ==
  IF subtotal > 0
    THEN RMul(RDiv(itemsTotal, RInt(subtotal)), RInt(Or0(tax)))
    ELSE RZero

\* quantity * price of the items k.. that nobody holds a share of
RECURSIVE UnclaimedCost(_, _, _)
UnclaimedCost(items, asg, k) ==
  IF k > Len(items) THEN 0
  ELSE (IF SumValues(GetOr(asg, k - 1, EmptyMap)) = 0
          THEN items[k].price * items[k].quantity
          ELSE 0) + UnclaimedCost(items, asg, k + 1)

\* a variant of SplitRawRow: the first participant picks up what nobody claimed
SplitRawRowSpread(r, name, pIndex, asg) ==
  LET items == SplitLines(r.items, asg, pIndex, 1)
      itemsTotal == RAdd(RSumSeq(LineCosts(items)),
                         RInt(IF pIndex = 0 THEN UnclaimedCost(r.items, asg, 1) ELSE 0))
      taxPortion == SplitTaxPortion(Subtotal(r.items), itemsTotal, r.tax)
  IN  [name |-> Trim(name),
       total |-> RAdd(itemsTotal, taxPortion),
       itemsTotal |-> itemsTotal,
       taxPortion |-> taxPortion,
       items |-> items]

\* calculateSplit, lines 518-551: a participant's row before rounding
SplitRawRow(r, name, pIndex, asg) ==
  LET items == SplitLines(r.items, asg, pIndex, 1)
      itemsTotal == RSumSeq(LineCosts(items))
      taxPortion == SplitTaxPortion(Subtotal(r.items), itemsTotal, r.tax)
  IN  [name |-> Trim(name),
       total |-> RAdd(itemsTotal, taxPortion),
       itemsTotal |-> itemsTotal,
       taxPortion |-> taxPortion,
       items |-> items]

\* a variant of SplitRoundRow: the total is the items total, without the tax
SplitRoundRowWithoutTax(raw) ==
  [name |-> raw.name,
   total |-> Round2(raw.itemsTotal),
   itemsTotal |-> Round2(raw.itemsTotal),
   taxPortion |-> Round2(raw.taxPortion),
   items |-> raw.items]

\* calculateSplit, lines 553-559
SplitRoundRow(raw) ==
  [name |-> raw.name,
   total |-> Round2(raw.total),
   itemsTotal |-> Round2(raw.itemsTotal),
   taxPortion |-> Round2(raw.taxPortion),
   items |-> raw.items]

\* the rows before rounding, one per valid participant
SplitRawRows(r, ps, asg) ==
  LET validParticipants == ValidParticipants(ps)
  IN  [k \in 1..Len(validParticipants) |->
        SplitRawRow(r, validParticipants[k], k - 1, asg)]

ItemsTotalsOf(rows) == [j \in 1..Len(rows) |-> rows[j].itemsTotal]

RowTotals(rows) == [j \in 1..Len(rows) |-> rows[j].total]

\* a variant of SplitOf: splitTotal adds up the items totals, without the tax
SplitOfItemsOnly(r, ps, asg) ==
  LET raws == SplitRawRows(r, ps, asg)
      results == [k \in 1..Len(raws) |-> SplitRoundRow(raws[k])]
  IN  [participants |-> results,
       originalTotal |-> r.total,
       splitTotal |-> RSumSeq(ItemsTotalsOf(results)),
       subtotal |-> Subtotal(r.items),
       tax |-> Or0(r.tax)]

\* calculateSplit, lines 562-568: the stored settlement
SplitOf(r, ps, asg) ==
  LET raws == SplitRawRows(r, ps, asg)
      results == [k \in 1..Len(raws) |-> SplitRoundRow(raws[k])]
  IN  [participants |-> results,
       originalTotal |-> r.total,
       splitTotal |-> RSumSeq(RowTotals(results)),
       subtotal |-> Subtotal(r.items),
       tax |-> Or0(r.tax)]

(***************************************************************************)
(* Handlers.  Each is the whole handler; what the page lets the user do at *)
(* each step is stated in Next.                                            *)
(***************************************************************************)
Steps == {"landing", "upload", "participants", "review", "assign", "results"}

\* a variant of GoToStep: a stored settlement is dropped on the way
GoToStepDroppingResults(step) ==
  /\ currentStep' = step
  /\ error' = NoError
  /\ splitResults' = NullResults
  /\ UNCHANGED <<file, isParsingInBackground, parseProgress, receipt,
                 participants, itemAssignments, selectedParticipantIndex,
                 pending>>

\* goToStep
GoToStep(step) ==
  /\ currentStep' = step
  /\ error' = NoError
  /\ UNCHANGED <<file, isParsingInBackground, parseProgress, receipt,
                 participants, itemAssignments, splitResults,
                 selectedParticipantIndex, pending>>

\* onFileSelect / onDrop with validateFile: a valid image is kept, another
\* one only sets the error
OnFileSelect(valid) ==
  /\ file' = IF valid THEN TRUE ELSE file
  /\ error' = IF valid THEN NoError
              ELSE "Please select a valid image file (JPEG, PNG, or WebP)"
  /\ UNCHANGED <<currentStep, isParsingInBackground, parseProgress, receipt,
                 participants, itemAssignments, splitResults,
                 selectedParticipantIndex, pending>>

\* clearFile
ClearFile ==
  /\ file' = FALSE
  /\ UNCHANGED <<currentStep, isParsingInBackground, parseProgress, receipt,
                 participants, itemAssignments, splitResults, error,
                 selectedParticipantIndex, pending>>

\* startParsing, with parseReceiptInBackground up to its await: the request
\* is sent and the page moves to 'participants'
StartParsing ==
  IF ~file
    THEN /\ error' = "Please select a receipt image"
         /\ UNCHANGED <<currentStep, file, isParsingInBackground,
                        parseProgress, receipt, participants, itemAssignments,
                        splitResults, selectedParticipantIndex, pending>>
    ELSE /\ isParsingInBackground' = TRUE
         /\ parseProgress' = "parsing"
         /\ pending' = pending + 1
         /\ currentStep' = "participants"
         /\ error' = NoError
         /\ UNCHANGED <<file, receipt, participants, itemAssignments,
                        splitResults, selectedParticipantIndex>>

\* itemAssignments after lines 265-268: an empty entry per item
InitialAssignments(items) == [i \in 0..(Len(items) - 1) |-> EmptyMap]

\* a variant of ParseResolve: the assignments of the former receipt are kept
ParseResolveKeepingAssignments(r) ==
  /\ pending > 0
  /\ pending' = pending - 1
  /\ receipt' = r
  /\ IF r = NullReceipt
       THEN /\ itemAssignments' = EmptyMap
            /\ parseProgress' = "error"
            /\ error' = "Failed to parse receipt"
       ELSE /\ itemAssignments' =
                 [i \in 0..(Len(r.items) - 1) |->
                    GetOr(itemAssignments, i, EmptyMap)]
            /\ parseProgress' = "complete"
            /\ error' = error
  /\ isParsingInBackground' = FALSE
  /\ UNCHANGED <<currentStep, file, participants, splitResults,
                 selectedParticipantIndex>>

\* parseReceiptInBackground after the await, the request resolved with
\* response.data.receipt = r.  A null r is stored, the assignments are
\* cleared, and reading r.items throws into the catch block.
ParseResolve(r) ==
  /\ pending > 0
  /\ pending' = pending - 1
  /\ receipt' = r
  /\ IF r = NullReceipt
       THEN /\ itemAssignments' = EmptyMap
            /\ parseProgress' = "error"
            /\ error' = "Failed to parse receipt"
       ELSE /\ itemAssignments' = InitialAssignments(r.items)
            /\ parseProgress' = "complete"
            /\ error' = error
  /\ isParsingInBackground' = FALSE
  /\ UNCHANGED <<currentStep, file, participants, splitResults,
                 selectedParticipantIndex>>

\* a variant of ParseReject: the catch block leaves parseProgress as it is
ParseRejectUnshown ==
  /\ pending > 0
  /\ pending' = pending - 1
  /\ error' = "Failed to parse receipt"
  /\ UNCHANGED <<currentStep, file, receipt, participants, itemAssignments,
                 splitResults, selectedParticipantIndex, parseProgress,
                 isParsingInBackground>>

\* parseReceiptInBackground after the await, the request rejected
ParseReject ==
  /\ pending > 0
  /\ pending' = pending - 1
  /\ parseProgress' = "error"
  /\ error' = "Failed to parse receipt"
  /\ isParsingInBackground' = FALSE
  /\ UNCHANGED <<currentStep, file, receipt, participants, itemAssignments,
                 splitResults, selectedParticipantIndex>>

\* addParticipant
AddParticipant ==
  /\ participants' = Append(participants, "")
  /\ UNCHANGED <<currentStep, file, isParsingInBackground, parseProgress,
                 receipt, itemAssignments, splitResults, error,
                 selectedParticipantIndex, pending>>

\* v-model="participants[index]"
SetParticipantName(index, name) ==
  /\ participants' = [participants EXCEPT ![index + 1] = name]
  /\ UNCHANGED <<currentStep, file, isParsingInBackground, parseProgress,
                 receipt, itemAssignments, splitResults, error,
                 selectedParticipantIndex, pending>>

\* array.splice(index, 1) for 0 <= index
Splice(a, index) ==
  IF index < Len(a)
    THEN SubSeq(a, 1, index) \o SubSeq(a, index + 2, Len(a))
    ELSE a

\* a variant of ReindexParticipants: the removed index is dropped, no key moves
ReindexParticipantsUnshifted(assignments, index) ==
  [p \in DOMAIN assignments \ {index} |-> assignments[p]]

\* removeParticipant, lines 293-308: one item's entry without the removed index
ReindexParticipants(assignments, index) ==
  LET kept == {p \in DOMAIN assignments : p # index}
      NewP(p) == IF p > index THEN p - 1 ELSE p
  IN  [q \in {NewP(p) : p \in kept} |->
        assignments[CHOOSE p \in kept : NewP(p) = q]]

\* a variant of RemoveParticipant: the only slot can be removed too
RemoveParticipantUnguarded(index) ==
  /\ participants' = Splice(participants, index)
  /\ itemAssignments' =
       [i \in DOMAIN itemAssignments |->
         ReindexParticipants(itemAssignments[i], index)]
  /\ UNCHANGED <<currentStep, file, isParsingInBackground, parseProgress,
                 receipt, splitResults, error, selectedParticipantIndex,
                 pending>>

\* removeParticipant
RemoveParticipant(index) ==
  /\ IF Len(participants) > 1
       THEN /\ participants' = Splice(participants, index)
            /\ itemAssignments' =
                 [i \in DOMAIN itemAssignments |->
                   ReindexParticipants(itemAssignments[i], index)]
       ELSE UNCHANGED <<participants, itemAssignments>>
  /\ UNCHANGED <<currentStep, file, isParsingInBackground, parseProgress,
                 receipt, splitResults, error, selectedParticipantIndex,
                 pending>>

\* a variant of AssignedToSelected: the share is set to 1 whatever it was
AssignedToSelectedAnew(asg, selected, itemIndex) ==
  IF selected = NullIndex THEN asg
  ELSE Put(asg, itemIndex, Put(GetOr(asg, itemIndex, EmptyMap), selected, 1))

\* assignItemToSelected: the assignment map it leaves
AssignedToSelected(asg, selected, itemIndex) ==
  IF selected = NullIndex THEN asg
  ELSE LET assignments == GetOr(asg, itemIndex, EmptyMap)
       IN  IF GetOr(assignments, selected, 0) = 0
             THEN Put(asg, itemIndex, Put(assignments, selected, 1))
             ELSE Put(asg, itemIndex, assignments)

\* assignItemToSelected
AssignItemToSelected(itemIndex) ==
  /\ itemAssignments' =
       AssignedToSelected(itemAssignments, selectedParticipantIndex, itemIndex)
  /\ UNCHANGED <<currentStep, file, isParsingInBackground, parseProgress,
                 receipt, participants, splitResults, error,
                 selectedParticipantIndex, pending>>

\* a variant of IncreaseItemQuantity: the item's entry is replaced by the pair
IncreaseItemQuantityAlone(itemIndex, participantIndex) ==
  /\ LET assignments == GetOr(itemAssignments, itemIndex, EmptyMap)
         currentQty == GetOr(assignments, participantIndex, 0)
     IN  itemAssignments' =
           Put(itemAssignments, itemIndex,
               Put(EmptyMap, participantIndex, currentQty + 1))
  /\ UNCHANGED <<currentStep, file, isParsingInBackground, parseProgress,
                 receipt, participants, splitResults, error,
                 selectedParticipantIndex, pending>>

\* increaseItemQuantity
IncreaseItemQuantity(itemIndex, participantIndex) ==
  /\ LET assignments == GetOr(itemAssignments, itemIndex, EmptyMap)
         currentQty == GetOr(assignments, participantIndex, 0)
     IN  itemAssignments' =
           Put(itemAssignments, itemIndex,
               Put(assignments, participantIndex, currentQty + 1))
  /\ UNCHANGED <<currentStep, file, isParsingInBackground, parseProgress,
                 receipt, participants, splitResults, error,
                 selectedParticipantIndex, pending>>

\* a variant of DecreaseItemQuantity: a share of 1 is stored as 0
DecreaseItemQuantityToZero(itemIndex, participantIndex) ==
  /\ IF itemIndex \notin DOMAIN itemAssignments
       THEN UNCHANGED itemAssignments
       ELSE LET assignments == itemAssignments[itemIndex]
                currentQty == GetOr(assignments, participantIndex, 0)
            IN  IF currentQty >= 1
                  THEN itemAssignments' =
                         Put(itemAssignments, itemIndex,
                             Put(assignments, participantIndex, currentQty - 1))
                  ELSE UNCHANGED itemAssignments
  /\ UNCHANGED <<currentStep, file, isParsingInBackground, parseProgress,
                 receipt, participants, splitResults, error,
                 selectedParticipantIndex, pending>>

\* decreaseItemQuantity
DecreaseItemQuantity(itemIndex, participantIndex) ==
  /\ IF itemIndex \notin DOMAIN itemAssignments
       THEN UNCHANGED itemAssignments
       ELSE LET assignments == itemAssignments[itemIndex]
                currentQty == GetOr(assignments, participantIndex, 0)
            IN  IF currentQty > 1
                  THEN itemAssignments' =
                         Put(itemAssignments, itemIndex,
                             Put(assignments, participantIndex, currentQty - 1))
                  ELSE IF currentQty = 1
                    THEN itemAssignments' =
                           Put(itemAssignments, itemIndex,
                               Del(assignments, participantIndex))
                    ELSE UNCHANGED itemAssignments
  /\ UNCHANGED <<currentStep, file, isParsingInBackground, parseProgress,
                 receipt, participants, splitResults, error,
                 selectedParticipantIndex, pending>>

\* a variant of RemoveAssignment: one unit is taken off, as by decreaseItemQuantity
RemoveAssignmentByOne(itemIndex, participantIndex) ==
  /\ IF itemIndex \notin DOMAIN itemAssignments
       THEN UNCHANGED itemAssignments
       ELSE LET assignments == itemAssignments[itemIndex]
                currentQty == GetOr(assignments, participantIndex, 0)
            IN  itemAssignments' =
                  Put(itemAssignments, itemIndex,
                      IF currentQty > 1
                        THEN Put(assignments, participantIndex, currentQty - 1)
                        ELSE Del(assignments, participantIndex))
  /\ UNCHANGED <<currentStep, file, isParsingInBackground, parseProgress,
                 receipt, participants, splitResults, error,
                 selectedParticipantIndex, pending>>

\* removeAssignment
RemoveAssignment(itemIndex, participantIndex) ==
  /\ IF itemIndex \notin DOMAIN itemAssignments
       THEN UNCHANGED itemAssignments
       ELSE itemAssignments' =
              Put(itemAssignments, itemIndex,
                  Del(itemAssignments[itemIndex], participantIndex))
  /\ UNCHANGED <<currentStep, file, isParsingInBackground, parseProgress,
                 receipt, participants, splitResults, error,
                 selectedParticipantIndex, pending>>

\* selectParticipant
SelectParticipant(participantIndex) ==
  /\ selectedParticipantIndex' = participantIndex
  /\ UNCHANGED <<currentStep, file, isParsingInBackground, parseProgress,
                 receipt, participants, itemAssignments, splitResults, error,
                 pending>>

\* a variant of ProceedToAssign: a list without a name goes through
ProceedToAssignUnnamed ==
  IF parseProgress # "complete" \/ receipt = NullReceipt
    THEN /\ error' = "Please wait for receipt parsing to complete"
         /\ UNCHANGED <<currentStep, file, isParsingInBackground,
                        parseProgress, receipt, participants, itemAssignments,
                        splitResults, selectedParticipantIndex, pending>>
    ELSE GoToStep("review")

\* proceedToAssign
ProceedToAssign ==
  IF Len(ValidParticipants(participants)) = 0
    THEN /\ error' = "Please add at least one participant"
         /\ UNCHANGED <<currentStep, file, isParsingInBackground,
                        parseProgress, receipt, participants, itemAssignments,
                        splitResults, selectedParticipantIndex, pending>>
    ELSE IF parseProgress # "complete" \/ receipt = NullReceipt
      THEN /\ error' = "Please wait for receipt parsing to complete"
           /\ UNCHANGED <<currentStep, file, isParsingInBackground,
                          parseProgress, receipt, participants,
                          itemAssignments, splitResults,
                          selectedParticipantIndex, pending>>
      ELSE GoToStep("review")

\* a variant of ProceedToAssignFromReview: the selection is kept
ProceedToAssignFromReviewSelected ==
  IF receipt = NullReceipt \/ Len(receipt.items) = 0
    THEN /\ error' = "Please add at least one item"
         /\ UNCHANGED <<currentStep, file, isParsingInBackground,
                        parseProgress, receipt, participants, itemAssignments,
                        splitResults, selectedParticipantIndex, pending>>
    ELSE /\ currentStep' = "assign"
         /\ error' = NoError
         /\ UNCHANGED <<file, isParsingInBackground, parseProgress, receipt,
                        participants, itemAssignments, splitResults,
                        selectedParticipantIndex, pending>>

\* proceedToAssignFromReview
ProceedToAssignFromReview ==
  IF receipt = NullReceipt \/ Len(receipt.items) = 0
    THEN /\ error' = "Please add at least one item"
         /\ UNCHANGED <<currentStep, file, isParsingInBackground,
                        parseProgress, receipt, participants, itemAssignments,
                        splitResults, selectedParticipantIndex, pending>>
    ELSE /\ selectedParticipantIndex' = NullIndex
         /\ currentStep' = "assign"
         /\ error' = NoError
         /\ UNCHANGED <<file, isParsingInBackground, parseProgress, receipt,
                        participants, itemAssignments, splitResults, pending>>

(***************************************************************************)
(* The review step: edits of the receipt.  A number typed into a field is  *)
(* [nan |-> FALSE, v |-> n], or NaN.                                        *)
(***************************************************************************)
NaN == [nan |-> TRUE, v |-> 0]
Num(n) == [nan |-> FALSE, v |-> n]

\* parseFloat(String(x)) of a number: that number, and NaN of NaN
ParseFloat(x) == IF x.nan THEN NaN ELSE Num(x.v)

\* receipt.value && receipt.value.items[index]
HasItem(index) ==
  /\ receipt # NullReceipt
  /\ index >= 0
  /\ index < Len(receipt.items)

\* a variant of RecalculateTotal: the tax is left out of the total
RecalculateTotalWithoutTax(r) == [r EXCEPT !.total = Subtotal(r.items)]

\* recalculateTotal applied to a receipt
RecalculateTotal(r) == [r EXCEPT !.total = Subtotal(r.items) + Or0(r.tax)]

\* a variant of UpdateItemName: the total is recalculated after the rename
UpdateItemNameRecalculated(index, name) ==
  /\ IF HasItem(index)
       THEN receipt' =
              RecalculateTotal([receipt EXCEPT !.items[index + 1].name = name])
       ELSE UNCHANGED receipt
  /\ UNCHANGED <<currentStep, file, isParsingInBackground, parseProgress,
                 participants, itemAssignments, splitResults, error,
                 selectedParticipantIndex, pending>>

\* a variant of UpdateItemName: every item gets the name
UpdateItemNameEverywhere(index, name) ==
  /\ IF HasItem(index)
       THEN receipt' =
              [receipt EXCEPT !.items =
                 [j \in DOMAIN receipt.items |->
                    [receipt.items[j] EXCEPT !.name = name]]]
       ELSE UNCHANGED receipt
  /\ UNCHANGED <<currentStep, file, isParsingInBackground, parseProgress,
                 participants, itemAssignments, splitResults, error,
                 selectedParticipantIndex, pending>>

\* updateItemName
UpdateItemName(index, name) ==
  /\ IF HasItem(index)
       THEN receipt' = [receipt EXCEPT !.items[index + 1].name = name]
       ELSE UNCHANGED receipt
  /\ UNCHANGED <<currentStep, file, isParsingInBackground, parseProgress,
                 participants, itemAssignments, splitResults, error,
                 selectedParticipantIndex, pending>>

\* a variant of UpdateItemQuantity: any quantity that is a number is stored
UpdateItemQuantityUnchecked(index, quantity) ==
  /\ LET parsedQuantity == ParseFloat(quantity)
     IN  IF HasItem(index) /\ ~parsedQuantity.nan
           THEN receipt' =
                  RecalculateTotal(
                    [receipt EXCEPT !.items[index + 1].quantity = parsedQuantity.v])
           ELSE UNCHANGED receipt
  /\ UNCHANGED <<currentStep, file, isParsingInBackground, parseProgress,
                 participants, itemAssignments, splitResults, error,
                 selectedParticipantIndex, pending>>

\* updateItemQuantity
UpdateItemQuantity(index, quantity) ==
  /\ LET parsedQuantity == ParseFloat(quantity)
     IN  IF HasItem(index) /\ ~parsedQuantity.nan /\ parsedQuantity.v > 0
           THEN receipt' =
                  RecalculateTotal(
                    [receipt EXCEPT !.items[index + 1].quantity = parsedQuantity.v])
           ELSE UNCHANGED receipt
  /\ UNCHANGED <<currentStep, file, isParsingInBackground, parseProgress,
                 participants, itemAssignments, splitResults, error,
                 selectedParticipantIndex, pending>>

\* updateItemPrice
UpdateItemPrice(index, price) ==
  /\ LET parsedPrice == ParseFloat(price)
     IN  IF HasItem(index) /\ ~parsedPrice.nan /\ parsedPrice.v >= 0
           THEN receipt' =
                  RecalculateTotal(
                    [receipt EXCEPT !.items[index + 1].price = parsedPrice.v])
           ELSE UNCHANGED receipt
  /\ UNCHANGED <<currentStep, file, isParsingInBackground, parseProgress,
                 participants, itemAssignments, splitResults, error,
                 selectedParticipantIndex, pending>>

\* a variant of ReindexItems: the removed item's entry is dropped, no key moves
ReindexItemsUnshifted(asg, index) == [i \in DOMAIN asg \ {index} |-> asg[i]]

\* removeItem, lines 438-456: the assignment map without the removed item
ReindexItems(asg, index) ==
  LET kept == {i \in DOMAIN asg : i # index}
      NewI(i) == IF i > index THEN i - 1 ELSE i
  IN  [j \in {NewI(i) : i \in kept} |-> asg[CHOOSE i \in kept : NewI(i) = j]]

\* a variant of RemoveItem: the last item can be removed too
RemoveItemUnguarded(index) ==
  /\ IF receipt # NullReceipt
       THEN /\ receipt' =
                 RecalculateTotal(
                   [receipt EXCEPT !.items = Splice(receipt.items, index)])
            /\ itemAssignments' = ReindexItems(itemAssignments, index)
       ELSE UNCHANGED <<receipt, itemAssignments>>
  /\ UNCHANGED <<currentStep, file, isParsingInBackground, parseProgress,
                 participants, splitResults, error, selectedParticipantIndex,
                 pending>>

\* removeItem
RemoveItem(index) ==
  /\ IF receipt # NullReceipt /\ Len(receipt.items) > 1
       THEN /\ receipt' =
                 RecalculateTotal(
                   [receipt EXCEPT !.items = Splice(receipt.items, index)])
            /\ itemAssignments' = ReindexItems(itemAssignments, index)
       ELSE UNCHANGED <<receipt, itemAssignments>>
  /\ UNCHANGED <<currentStep, file, isParsingInBackground, parseProgress,
                 participants, splitResults, error, selectedParticipantIndex,
                 pending>>

\* addNewItem
AddNewItem ==
  /\ IF receipt # NullReceipt
       THEN /\ receipt' =
                 [receipt EXCEPT !.items =
                   Append(receipt.items, [name |-> "", quantity |-> 1, price |-> 0])]
            /\ itemAssignments' =
                 Put(itemAssignments, Len(receipt.items), EmptyMap)
       ELSE UNCHANGED <<receipt, itemAssignments>>
  /\ UNCHANGED <<currentStep, file, isParsingInBackground, parseProgress,
                 participants, splitResults, error, selectedParticipantIndex,
                 pending>>

\* updateTax
UpdateTax(tax) ==
  /\ LET parsedTax == ParseFloat(tax)
     IN  IF receipt # NullReceipt /\ ~parsedTax.nan /\ parsedTax.v >= 0
           THEN receipt' = RecalculateTotal([receipt EXCEPT !.tax = parsedTax.v])
           ELSE UNCHANGED receipt
  /\ UNCHANGED <<currentStep, file, isParsingInBackground, parseProgress,
                 participants, itemAssignments, splitResults, error,
                 selectedParticipantIndex, pending>>

\* a variant of CalculateSplit: a list without a name is split as well
CalculateSplitUnguarded ==
  IF receipt = NullReceipt
    THEN UNCHANGED <<currentStep, file, isParsingInBackground, parseProgress,
                     receipt, participants, itemAssignments, splitResults,
                     error, selectedParticipantIndex, pending>>
    ELSE /\ splitResults' = SplitOf(receipt, participants, itemAssignments)
         /\ currentStep' = "results"
         /\ error' = NoError
         /\ UNCHANGED <<file, isParsingInBackground, parseProgress, receipt,
                        participants, itemAssignments,
                        selectedParticipantIndex, pending>>

\* calculateSplit
CalculateSplit ==
  IF receipt = NullReceipt
    THEN UNCHANGED <<currentStep, file, isParsingInBackground, parseProgress,
                     receipt, participants, itemAssignments, splitResults,
                     error, selectedParticipantIndex, pending>>
    ELSE IF Len(ValidParticipants(participants)) = 0
      THEN /\ error' = "Please add at least one participant"
           /\ UNCHANGED <<currentStep, file, isParsingInBackground,
                          parseProgress, receipt, participants,
                          itemAssignments, splitResults,
                          selectedParticipantIndex, pending>>
      ELSE /\ splitResults' = SplitOf(receipt, participants, itemAssignments)
           /\ currentStep' = "results"
           /\ error' = NoError
           /\ UNCHANGED <<file, isParsingInBackground, parseProgress, receipt,
                          participants, itemAssignments,
                          selectedParticipantIndex, pending>>

\* resetApp; a request that has not settled stays in flight
ResetApp ==
  /\ currentStep' = "landing"
  /\ file' = FALSE
  /\ receipt' = NullReceipt
  /\ participants' = <<"">>
  /\ itemAssignments' = EmptyMap
  /\ splitResults' = NullResults
  /\ error' = NoError
  /\ selectedParticipantIndex' = NullIndex
  /\ isParsingInBackground' = FALSE
  /\ parseProgress' = "idle"
  /\ UNCHANGED pending

(***************************************************************************)
(* The state after construction.                                           *)
(***************************************************************************)
Init ==
  /\ currentStep = "landing"
  /\ file = FALSE
  /\ isParsingInBackground = FALSE
  /\ parseProgress = "idle"
  /\ receipt = NullReceipt
  /\ participants = <<"">>
  /\ itemAssignments = EmptyMap
  /\ splitResults = NullResults
  /\ error = NoError
  /\ selectedParticipantIndex = NullIndex
  /\ pending = 0
  /\ lastOp = [op |-> "init", args |-> <<>>]

(***************************************************************************)
(* The page: which handler the template offers at each step, with what     *)
(* arguments.  What the user                                               *)
(* types and what /api/parse answers, with the bounds, are the scope sc.   *)
(***************************************************************************)
\* the assign step's Assign button is shown for an unassigned pair, the
\* quantity controls for an assigned one (template lines 2004-2098)
PairAssigned(itemIndex) ==
  GetOr(GetOr(itemAssignments, itemIndex, EmptyMap),
        selectedParticipantIndex, 0) # 0

ItemIndexes == IF receipt = NullReceipt THEN {} ELSE 0..(Len(receipt.items) - 1)

PageNext(sc) ==
  \/ /\ currentStep = "landing"
     /\ GoToStep("upload")
     /\ UNCHANGED lastOp
  \/ /\ currentStep = "upload"
     /\ GoToStep("landing")
     /\ UNCHANGED lastOp
  \/ /\ currentStep = "upload"
     /\ \E valid \in BOOLEAN : OnFileSelect(valid)
     /\ UNCHANGED lastOp
  \/ /\ currentStep = "upload"
     /\ file
     /\ ClearFile
     /\ UNCHANGED lastOp
  \/ /\ currentStep = "upload"
     /\ file
     /\ pending < sc.maxPending
     /\ StartParsing
     /\ UNCHANGED lastOp
  \/ /\ \E r \in sc.responses : ParseResolve(r)
     /\ UNCHANGED lastOp
  \/ /\ ParseReject
     /\ UNCHANGED lastOp
  \/ /\ currentStep = "participants"
     /\ GoToStep("upload")
     /\ UNCHANGED lastOp
  \/ /\ currentStep = "participants"
     /\ Len(participants) < sc.maxParticipants
     /\ AddParticipant
     /\ UNCHANGED lastOp
  \/ /\ currentStep = "participants"
     /\ \E index \in 0..(Len(participants) - 1), name \in sc.names :
          SetParticipantName(index, name)
     /\ UNCHANGED lastOp
  \/ /\ currentStep = "participants"
     /\ Len(participants) > 1
     /\ \E index \in 0..(Len(participants) - 1) : RemoveParticipant(index)
     /\ UNCHANGED lastOp
  \/ /\ currentStep = "participants"
     /\ parseProgress \notin {"error", "uploading", "parsing"}
     /\ ProceedToAssign
     /\ UNCHANGED lastOp
  \/ /\ currentStep = "review"
     /\ GoToStep("participants")
     /\ UNCHANGED lastOp
  \/ /\ currentStep = "review"
     /\ receipt # NullReceipt /\ Len(receipt.items) < sc.maxItems
     /\ AddNewItem
     /\ UNCHANGED lastOp
  \/ /\ currentStep = "review"
     /\ \E index \in ItemIndexes, name \in sc.itemNames : UpdateItemName(index, name)
     /\ UNCHANGED lastOp
  \/ /\ currentStep = "review"
     /\ \E index \in ItemIndexes, n \in sc.quantities : UpdateItemQuantity(index, n)
     /\ UNCHANGED lastOp
  \/ /\ currentStep = "review"
     /\ \E index \in ItemIndexes, n \in sc.prices : UpdateItemPrice(index, n)
     /\ UNCHANGED lastOp
  \/ /\ currentStep = "review"
     /\ Cardinality(ItemIndexes) > 1
     /\ \E index \in ItemIndexes : RemoveItem(index)
     /\ UNCHANGED lastOp
  \/ /\ currentStep = "review"
     /\ \E n \in sc.taxes : UpdateTax(n)
     /\ UNCHANGED lastOp
  \/ /\ currentStep = "review"
     /\ ProceedToAssignFromReview
     /\ UNCHANGED lastOp
  \/ /\ currentStep = "assign"
     /\ GoToStep("review")
     /\ UNCHANGED lastOp
  \/ /\ currentStep = "assign"
     /\ \E index \in 0..(Len(ValidParticipants(participants)) - 1) :
          SelectParticipant(index)
     /\ UNCHANGED lastOp
  \/ /\ currentStep = "assign"
     /\ selectedParticipantIndex # NullIndex
     /\ \E itemIndex \in ItemIndexes :
          /\ ~PairAssigned(itemIndex)
          /\ AssignItemToSelected(itemIndex)
     /\ UNCHANGED lastOp
  \/ /\ currentStep = "assign"
     /\ selectedParticipantIndex # NullIndex
     /\ \E itemIndex \in ItemIndexes :
          /\ PairAssigned(itemIndex)
          /\ itemAssignments[itemIndex][selectedParticipantIndex] < sc.maxShare
          /\ IncreaseItemQuantity(itemIndex, selectedParticipantIndex)
     /\ UNCHANGED lastOp
  \/ /\ currentStep = "assign"
     /\ selectedParticipantIndex # NullIndex
     /\ \E itemIndex \in ItemIndexes :
          /\ PairAssigned(itemIndex)
          /\ DecreaseItemQuantity(itemIndex, selectedParticipantIndex)
     /\ UNCHANGED lastOp
  \/ /\ currentStep = "assign"
     /\ selectedParticipantIndex # NullIndex
     /\ \E itemIndex \in ItemIndexes :
          /\ PairAssigned(itemIndex)
          /\ RemoveAssignment(itemIndex, selectedParticipantIndex)
     /\ UNCHANGED lastOp
  \/ /\ currentStep = "assign"
     /\ CalculateSplit
     /\ UNCHANGED lastOp
  \/ /\ currentStep = "results"
     /\ ResetApp
     /\ UNCHANGED lastOp

\* the results step's "Back" button
BackToAssign ==
  /\ currentStep = "results"
  /\ GoToStep("assign")
  /\ UNCHANGED lastOp

(***************************************************************************)
(* Spec: one pass through the page.  Two guests at most, the receipt of    *)
(* the specification's unclaimed-item scenario, edits that type a price of *)
(* 0 and a tax of 0.  The user leaves the results by "Start over"; the     *)
(* sessions that go back from the results to the assign step are those of  *)
(* BackToAssign.                                                           *)
(***************************************************************************)
SaladReceipt ==
  [items |-> <<[name |-> "Salad", quantity |-> 1, price |-> 1500]>>,
   tax |-> 500, total |-> 2000]

PageScope ==
  [names |-> {"", "Ann"},
   responses |-> {SaladReceipt, NullReceipt},
   itemNames |-> {"Salad"},
   quantities |-> {NaN, Num(1)},
   prices |-> {Num(0)},
   taxes |-> {Num(0)},
   maxParticipants |-> PageParticipants,
   maxItems |-> PageItems,
   maxShare |-> PageShare,
   maxPending |-> MaxPending]

Next == PageNext(PageScope)

Spec == Init /\ [][Next]_vars

(***************************************************************************)
(* RaceSpec: one pass through the page with up to two requests to          *)
(* /api/parse in flight at once (the user goes back to the upload step and *)
(* starts parsing again before the first answer is in), and an answer that *)
(* is a receipt, a receipt without items or no receipt.                    *)
(***************************************************************************)
RacePending == 2

\* /api/parse found no item
EmptyReceipt == [items |-> <<>>, tax |-> 0, total |-> 0]

RaceScope ==
  [names |-> {"Ann"},
   responses |-> {SaladReceipt, EmptyReceipt, NullReceipt},
   itemNames |-> {"Salad"},
   quantities |-> {Num(1)},
   prices |-> {Num(0)},
   taxes |-> {Num(0)},
   maxParticipants |-> PageParticipants,
   maxItems |-> PageItems,
   maxShare |-> PageShare,
   maxPending |-> RacePending]

RaceNext == PageNext(RaceScope)

RaceSpec == Init /\ [][RaceNext]_vars

(***************************************************************************)
(* RaceLiveSpec: RaceSpec where every request to /api/parse is answered or *)
(* rejected in the end: a completion that stays possible is taken.         *)
(***************************************************************************)
ParseCompletes ==
  /\ \/ \E r \in RaceScope.responses : ParseResolve(r)
     \/ ParseReject
  /\ UNCHANGED lastOp

RaceLiveSpec == RaceSpec /\ WF_vars(ParseCompletes)

(***************************************************************************)
(* WizardSpec: the page with every edge of the wizard, one request to      *)
(* /api/parse at a time.  The results step's "Back" button is followed in  *)
(* the sessions that reach the results with one guest slot and one item;   *)
(* after it the session goes on like any other.                            *)
(***************************************************************************)
WizardScope ==
  [names |-> {"Ann"},
   responses |-> {SaladReceipt},
   itemNames |-> {"Salad"},
   quantities |-> {Num(1)},
   prices |-> {Num(0)},
   taxes |-> {Num(0)},
   maxParticipants |-> PageParticipants,
   maxItems |-> PageItems,
   maxShare |-> PageShare,
   maxPending |-> MaxPending]

WizardNext ==
  \/ PageNext(WizardScope)
  \/ /\ currentStep = "results"
     /\ Len(participants) = 1
     /\ Len(receipt.items) = 1
     /\ BackToAssign

WizardSpec == Init /\ [][WizardNext]_vars

(***************************************************************************)
(* States of the assign step, drawn.  Every one is a state the page can    *)
(* reach: /api/parse may answer any receipt, a share grows by one per      *)
(* click, and a key p of the assignment map is any index the picker showed *)
(* while p + 1 names were filled in, whatever the names were changed to    *)
(* afterwards on the participants step.                                    *)
(***************************************************************************)
\* the shared-item scenario: one item of 10.00, no tax
PizzaReceipt ==
  [items |-> <<[name |-> "Pizza", quantity |-> 1, price |-> 1000]>>,
   tax |-> 0, total |-> 1000]

\* two items, one of nominal quantity 3; the stated total is not their sum
BeerReceipt ==
  [items |-> <<[name |-> "Beer", quantity |-> 3, price |-> 400],
               [name |-> "Pizza", quantity |-> 1, price |-> 1000]>>,
   tax |-> 220, total |-> 2500]

\* a subtotal of 0 with a tax
WaterReceipt ==
  [items |-> <<[name |-> "Water", quantity |-> 1, price |-> 0]>>,
   tax |-> 500, total |-> 500]

\* the answer of /api/parse without the optional tax
NoTaxReceipt ==
  [items |-> <<[name |-> "Pizza", quantity |-> 1, price |-> 1000]>>,
   tax |-> TaxMissing, total |-> 1000]

\* one item of 0.01
MintReceipt ==
  [items |-> <<[name |-> "Mint", quantity |-> 1, price |-> 1]>>,
   tax |-> 0, total |-> 1]

SplitReceipts ==
  {SaladReceipt, PizzaReceipt, BeerReceipt, WaterReceipt, NoTaxReceipt,
   MintReceipt}

\* a name of blanks, which trim() empties, and a name
SplitNames == {" ", "Ann"}

\* the lists of at most maxLen names that proceedToAssign lets through
NamedLists(maxLen) ==
  {ps \in UNION {[1..n -> SplitNames] : n \in 1..maxLen} :
     Len(ValidParticipants(ps)) > 0}

\* one item's entry: a share for some of the indexes below m
ShareMaps(m) == UNION {[K -> 1..MaxShare] : K \in SUBSET (0..(m - 1))}

\* an entry for each of n items
AssignmentMaps(n, m) == [0..(n - 1) -> ShareMaps(m)]

DrawnAssignStep(receipts) ==
  /\ currentStep = "assign"
  /\ file = TRUE
  /\ isParsingInBackground = FALSE
  /\ parseProgress = "complete"
  /\ receipt \in receipts
  /\ participants \in NamedLists(MaxSize - Len(receipt.items))
  /\ itemAssignments \in AssignmentMaps(Len(receipt.items), Len(participants))
  /\ splitResults = NullResults
  /\ error = NoError
  /\ pending = 0
  /\ lastOp = [op |-> "init", args |-> <<>>]

(***************************************************************************)
(* SplitSpec: calculateSplit applied to a drawn state of the assign step.  *)
(***************************************************************************)
SplitInit ==
  /\ DrawnAssignStep(SplitReceipts)
  /\ selectedParticipantIndex = NullIndex

SplitNext ==
  /\ currentStep = "assign"
  /\ CalculateSplit
  /\ lastOp' = [op |-> "calculateSplit", args |-> <<>>]

SplitSpec == SplitInit /\ [][SplitNext]_vars

(***************************************************************************)
(* AssignSpec: assignItemToSelected applied to a drawn state of the assign *)
(* step, to any item, with or without a selected participant.              *)
(***************************************************************************)
AssignInit ==
  /\ DrawnAssignStep({BeerReceipt})
  /\ selectedParticipantIndex \in
       {NullIndex} \cup (0..(Len(ValidParticipants(participants)) - 1))

AssignNext ==
  \E itemIndex \in ItemIndexes :
    /\ currentStep = "assign"
    /\ AssignItemToSelected(itemIndex)
    /\ lastOp' = [op |-> "assignItemToSelected", args |-> <<itemIndex>>]

AssignSpec == AssignInit /\ [][AssignNext]_vars

(***************************************************************************)
(* HandlerSpec: one handler applied to a drawn state of the participants,  *)
(* the review or the assign step.  The handlers take any argument of the   *)
(* small sets below, an index outside the list and a number no field       *)
(* accepts included; lastOp keeps the handler, its arguments and the state *)
(* it ran in.                                                              *)
(***************************************************************************)
HandlerReceipts == {BeerReceipt, SaladReceipt, NoTaxReceipt}

\* what is typed into a quantity, a price and the tax field
TypedQuantities == {NaN, Num(-1), Num(0), Num(2)}
TypedPrices == {NaN, Num(-1), Num(0), Num(300)}
TypedTaxes == {NaN, Num(-1), Num(0), Num(100)}

HandlerInit ==
  /\ currentStep \in {"participants", "review", "assign"}
  /\ file = TRUE
  /\ isParsingInBackground = FALSE
  /\ parseProgress = "complete"
  /\ receipt \in HandlerReceipts
  /\ participants \in
       UNION {[1..n -> {"Ann"}] : n \in 1..(MaxSize - Len(receipt.items))}
  /\ itemAssignments \in AssignmentMaps(Len(receipt.items), Len(participants))
  /\ splitResults = NullResults
  /\ error = NoError
  /\ selectedParticipantIndex \in
       IF currentStep = "assign"
         THEN {NullIndex, 0}
         ELSE {NullIndex}
  /\ pending = 0
  /\ lastOp = [op |-> "init", args |-> <<>>]

\* the state a handler ran in
Before ==
  [receipt |-> receipt, participants |-> participants,
   itemAssignments |-> itemAssignments, error |-> error,
   selectedParticipantIndex |-> selectedParticipantIndex,
   splitResults |-> splitResults, currentStep |-> currentStep,
   parseProgress |-> parseProgress]

\* a handler runs on a drawn state, once
Ran(op, args) ==
  /\ lastOp.op = "init"
  /\ lastOp' = [op |-> op, args |-> args, before |-> Before]

\* the indexes a setter is called with: those of the items and one on each side
SetterIndexes ==
  IF receipt = NullReceipt THEN {-1, 0} ELSE (-1)..Len(receipt.items)

SlotIndexes == 0..(Len(participants) - 1)

HandlerNext ==
  \/ /\ currentStep = "participants"
     /\ AddParticipant
     /\ Ran("addParticipant", <<>>)
  \/ /\ currentStep = "participants"
     /\ \E index \in SlotIndexes, name \in {"", "Bob"} :
          /\ SetParticipantName(index, name)
          /\ Ran("setParticipantName", <<index, name>>)
  \/ /\ currentStep = "participants"
     /\ \E index \in SlotIndexes :
          /\ RemoveParticipant(index)
          /\ Ran("removeParticipant", <<index>>)
  \/ /\ currentStep = "participants"
     /\ ProceedToAssign
     /\ Ran("proceedToAssign", <<>>)
  \/ /\ \E step \in Steps :
          /\ GoToStep(step)
          /\ Ran("goToStep", <<step>>)
  \/ /\ currentStep = "review"
     /\ \E index \in SetterIndexes, name \in {"Tea"} :
          /\ UpdateItemName(index, name)
          /\ Ran("updateItemName", <<index, name>>)
  \/ /\ currentStep = "review"
     /\ \E index \in SetterIndexes, quantity \in TypedQuantities :
          /\ UpdateItemQuantity(index, quantity)
          /\ Ran("updateItemQuantity", <<index, quantity>>)
  \/ /\ currentStep = "review"
     /\ \E index \in SetterIndexes, price \in TypedPrices :
          /\ UpdateItemPrice(index, price)
          /\ Ran("updateItemPrice", <<index, price>>)
  \/ /\ currentStep = "review"
     /\ \E tax \in TypedTaxes :
          /\ UpdateTax(tax)
          /\ Ran("updateTax", <<tax>>)
  \/ /\ currentStep = "review"
     /\ \E index \in ItemIndexes :
          /\ RemoveItem(index)
          /\ Ran("removeItem", <<index>>)
  \/ /\ currentStep = "review"
     /\ AddNewItem
     /\ Ran("addNewItem", <<>>)
  \/ /\ currentStep = "review"
     /\ ProceedToAssignFromReview
     /\ Ran("proceedToAssignFromReview", <<>>)
  \/ /\ currentStep = "assign"
     /\ \E index \in SlotIndexes :
          /\ SelectParticipant(index)
          /\ Ran("selectParticipant", <<index>>)
  \/ /\ currentStep = "assign"
     /\ \E itemIndex \in ItemIndexes :
          /\ AssignItemToSelected(itemIndex)
          /\ Ran("assignItemToSelected", <<itemIndex>>)
  \/ /\ currentStep = "assign"
     /\ \E itemIndex \in ItemIndexes, participantIndex \in SlotIndexes :
          /\ IncreaseItemQuantity(itemIndex, participantIndex)
          /\ Ran("increaseItemQuantity", <<itemIndex, participantIndex>>)
  \/ /\ currentStep = "assign"
     /\ \E itemIndex \in ItemIndexes, participantIndex \in SlotIndexes :
          /\ DecreaseItemQuantity(itemIndex, participantIndex)
          /\ Ran("decreaseItemQuantity", <<itemIndex, participantIndex>>)
  \/ /\ currentStep = "assign"
     /\ \E itemIndex \in ItemIndexes, participantIndex \in SlotIndexes :
          /\ RemoveAssignment(itemIndex, participantIndex)
          /\ Ran("removeAssignment", <<itemIndex, participantIndex>>)
  \/ /\ currentStep = "assign"
     /\ CalculateSplit
     /\ Ran("calculateSplit", <<>>)

HandlerSpec == HandlerInit /\ [][HandlerNext]_vars

(***************************************************************************)
(* SessionSpec: one handler, or one completion of a request to /api/parse, *)
(* applied to a drawn state of any step of a session: before or after the  *)
(* first receipt, with or without a request in flight, with or without a   *)
(* settlement stored by an earlier calculateSplit.  A handler is called at  *)
(* its step as in HandlerSpec; calculateSplit and resetApp are called at    *)
(* any step.  After resetApp the request in flight may still complete.      *)
(***************************************************************************)
\* the names of a session: filled in, or blanked on the participants step,
\* or a single guest
SessionLists == {<<"Ann", "Bob">>, <<" ", "">>, <<"Ann">>}

\* shares of both items of BeerReceipt, made while two names were filled in
ClaimedBeer == (0 :> (0 :> 1 @@ 1 :> 2)) @@ (1 :> (1 :> 1))

\* shares of the Beer of BeerReceipt, made by a single guest
ClaimedByOne == (0 :> (0 :> 2)) @@ (1 :> EmptyMap)

\* the settlement of an earlier state of the session
StoredResults == SplitOf(PizzaReceipt, <<"Zed">>, 0 :> (0 :> 1))

\* what /api/parse answers: a receipt, a receipt without items, no receipt
SessionResponses == {PizzaReceipt, EmptyReceipt, NullReceipt}

SessionInit ==
  /\ receipt \in {NullReceipt, BeerReceipt}
  /\ participants \in SessionLists
  /\ itemAssignments \in
       IF receipt = NullReceipt
         THEN {EmptyMap}
         ELSE IF Len(participants) = 1
           THEN {InitialAssignments(receipt.items), ClaimedByOne}
           ELSE {InitialAssignments(receipt.items), ClaimedBeer}
  /\ splitResults \in
       IF receipt = NullReceipt
         THEN {NullResults}
         ELSE {NullResults, StoredResults}
  /\ currentStep \in
       IF receipt = NullReceipt
         THEN {"landing", "upload", "participants"}
         ELSE IF splitResults = NullResults
           THEN Steps \ {"results"}
           ELSE Steps
  /\ file = TRUE
  /\ pending \in 0..MaxPending
  /\ parseProgress \in
       IF pending = 0
         THEN IF receipt = NullReceipt THEN {"idle"} ELSE {"complete"}
         ELSE IF receipt = NullReceipt THEN {"parsing"}
                                       ELSE {"parsing", "complete"}
  /\ isParsingInBackground = (parseProgress = "parsing")
  /\ error = NoError
  /\ selectedParticipantIndex = NullIndex
  /\ lastOp = [op |-> "init", args |-> <<>>]

\* a request sent before resetApp completes after it
RanAfterReset(op, args) ==
  /\ lastOp.op = "resetApp"
  /\ lastOp' = [op |-> op, args |-> args, before |-> Before]

SessionNext ==
  \/ HandlerNext
  \/ /\ currentStep # "assign"
     /\ CalculateSplit
     /\ Ran("calculateSplit", <<>>)
  \/ /\ ResetApp
     /\ Ran("resetApp", <<>>)
  \/ /\ currentStep = "upload"
     /\ \E valid \in BOOLEAN :
          /\ OnFileSelect(valid)
          /\ Ran("onFileSelect", <<valid>>)
  \/ /\ currentStep = "upload"
     /\ ClearFile
     /\ Ran("clearFile", <<>>)
  \/ /\ currentStep = "upload"
     /\ StartParsing
     /\ Ran("startParsing", <<>>)
  \/ /\ \E r \in SessionResponses :
          /\ ParseResolve(r)
          /\ Ran("parseResolve", <<r>>)
  \/ /\ ParseReject
     /\ Ran("parseReject", <<>>)
  \/ /\ \E r \in SessionResponses :
          /\ ParseResolve(r)
          /\ RanAfterReset("parseResolveAfterReset", <<r>>)
  \/ /\ ParseReject
     /\ RanAfterReset("parseRejectAfterReset", <<>>)

SessionSpec == SessionInit /\ [][SessionNext]_vars

(***************************************************************************)
(* What the properties below read off a state.                             *)
(***************************************************************************)
\* the share the key p holds on item i of an assignment map
ShareIn(asg, i, p) == GetOr(GetOr(asg, i, EmptyMap), p, 0)

ShareOf(i, p) == ShareIn(itemAssignments, i, p)

\* the sum of all shares on item i
TotalShares(i) == SumValues(GetOr(itemAssignments, i, EmptyMap))

\* quantity * price of item i
LineTotal(i) == At(receipt.items, i).price * At(receipt.items, i).quantity

RECURSIVE SumLineTotals(_)
SumLineTotals(is) ==
  IF is = {} THEN 0
  ELSE LET i == CHOOSE x \in is : TRUE
       IN  LineTotal(i) + SumLineTotals(is \ {i})

\* the items subtotal: every item, claimed or not
ItemsSubtotal == SumLineTotals(ItemIndexes)

\* the receipt's tax, a missing one counting as 0
TaxOrZero == IF receipt.tax = TaxMissing THEN 0 ELSE receipt.tax

\* calculateSplit ran last and stored a settlement of this state
Settled ==
  /\ lastOp.op = "calculateSplit"
  /\ currentStep = "results"
  /\ splitResults # NullResults

\* the settlement's rows, and the same rows before rounding
Rows == splitResults.participants

RawRows == SplitRawRows(receipt, participants, itemAssignments)

\* a row's item lines follow the order of the items: the line of item i in
\* the row of index p is the one at this position
LineRank(i, p) == Cardinality({j \in 0..i : ShareOf(j, p) > 0})

\* what the row of index p is charged for item i
RowLineCost(row, i, p) ==
  IF ShareOf(i, p) > 0 THEN row.items[LineRank(i, p)].cost ELSE RZero

TaxPortions(rows) == [k \in 1..Len(rows) |-> rows[k].taxPortion]

ItemsTotals(rows) == [k \in 1..Len(rows) |-> rows[k].itemsTotal]

\* x is a number, neither NaN nor Infinity
Finite(x) == x[2] > 0

\* s is the whole number of hundredths nearest to x, a half going up
NearestHundredth(s, x) ==
  /\ s[2] = 1
  /\ 2 * x[1] - x[2] < 2 * s[1] * x[2]
  /\ 2 * s[1] * x[2] <= 2 * x[1] + x[2]

\* the slots with a name, in order: the picker's index of slot k (0-based)
\* is the number of named slots before it
NamedBefore(ps, k) == Cardinality({j \in 1..k : Trim(ps[j]) # ""})

(***************************************************************************)
(* C1 (as stated).  In a settlement that calculateSplit produced, for      *)
(* every item whose assignment entry has a positive total share, the costs *)
(* the settlement's rows attribute to that item sum to quantity * price.   *)
(***************************************************************************)
C1_ItemCostsSumToLineTotal ==
  (currentStep = "results" /\ splitResults # NullResults) =>
    \A i \in ItemIndexes :
      TotalShares(i) > 0 =>
        RSumSeq([k \in 1..Len(Rows) |-> RowLineCost(Rows[k], i, k - 1)])
          = RInt(LineTotal(i))

(***************************************************************************)
(* C2 (as stated).  When the items subtotal is positive, the tax portions  *)
(* of calculateSplit's rows before rounding, and those of                  *)
(* participantTotals, sum to receipt.tax.                                  *)
(***************************************************************************)
C2_TaxPortionsSumToTax ==
  (Settled /\ ItemsSubtotal > 0) =>
    /\ RSumSeq(TaxPortions(RawRows)) = RInt(TaxOrZero)
    /\ RSumSeq(TaxPortions(participantTotals)) = RInt(TaxOrZero)

\* tax * (sum of the rows' itemsTotal) / subtotal
TaxOfItemsTotals(rows) ==
  RDiv(RMul(RInt(TaxOrZero), RSumSeq(ItemsTotals(rows))), RInt(ItemsSubtotal))

(***************************************************************************)
(* C2 (amended).  When the items subtotal is positive, the tax portions of *)
(* calculateSplit's rows before rounding, and those of participantTotals,  *)
(* sum to receipt.tax * (sum of the rows' itemsTotal) / subtotal: to       *)
(* receipt.tax when the rows' itemsTotals add up to the subtotal.          *)
(***************************************************************************)
C2_TaxPortionsSumToClaimedPartOfTax ==
  (Settled /\ ItemsSubtotal > 0) =>
    LET raws == RawRows
        preview == participantTotals
        rawTax == RSumSeq(TaxPortions(raws))
        previewTax == RSumSeq(TaxPortions(preview))
    IN  /\ rawTax = TaxOfItemsTotals(raws)
        /\ RSumSeq(ItemsTotals(raws)) = RInt(ItemsSubtotal)
             => rawTax = RInt(TaxOrZero)
        /\ previewTax = TaxOfItemsTotals(preview)
        /\ RSumSeq(ItemsTotals(preview)) = RInt(ItemsSubtotal)
             => previewTax = RInt(TaxOrZero)

\* a settled receipt with a tax, fully claimed, two rows owing tax
C2_Witness ==
  /\ Settled
  /\ ItemsSubtotal > 0
  /\ TaxOrZero > 0
  /\ RSumSeq(ItemsTotals(RawRows)) = RInt(ItemsSubtotal)
  /\ Len(RawRows) >= 2
  /\ \A k \in 1..2 : RawRows[k].taxPortion # RZero
  /\ RawRows[1].taxPortion # RawRows[2].taxPortion

\* the picks of the run that never had slot k
NeverAssigned(ps, asg, k) ==
  IF Trim(ps[k + 1]) = "" THEN asg
  ELSE [i \in DOMAIN asg |-> ReindexParticipants(asg[i], NamedBefore(ps, k))]

SameAmounts(a, b) ==
  /\ Len(a.participants) = Len(b.participants)
  /\ \A j \in 1..Len(a.participants) :
       /\ a.participants[j].itemsTotal = b.participants[j].itemsTotal
       /\ a.participants[j].taxPortion = b.participants[j].taxPortion
       /\ a.participants[j].total = b.participants[j].total

(***************************************************************************)
(* C3 (as stated).  A step that removes a slot k on the participants step  *)
(* leaves a state whose settlement gives every remaining participant the   *)
(* itemsTotal, taxPortion and total of the run that never had slot k: the  *)
(* same list without the slot, the same picks in the picker (unchanged for *)
(* a blank slot, which the picker never showed; for a named slot, without  *)
(* the picks of its picker index and with the later indexes one lower).    *)
(***************************************************************************)
C3_RemovalAsNeverAdded ==
  [][(/\ currentStep = "participants"
      /\ receipt # NullReceipt
      /\ Len(participants') = Len(participants) - 1)
     => \E k \in 0..(Len(participants) - 1) :
          /\ participants' = Splice(participants, k)
          /\ SameAmounts(
               SplitOf(receipt', participants', itemAssignments'),
               SplitOf(receipt, Splice(participants, k),
                       NeverAssigned(participants, itemAssignments, k)))]_vars

\* share / (sum of shares) * quantity * price of item i for the index p
ShareOfLine(i, p) == Rat(ShareOf(i, p) * LineTotal(i), TotalShares(i))

RECURSIVE SumShareOfLines(_, _)
SumShareOfLines(is, p) ==
  IF is = {} THEN RZero
  ELSE LET i == CHOOSE x \in is : TRUE
       IN  RAdd(ShareOfLine(i, p), SumShareOfLines(is \ {i}, p))

C5_UnclaimedItemChargedToNobody ==
  Settled =>
    /\ splitResults.originalTotal = receipt.total
    /\ \A k \in 1..Len(Rows) :
         /\ Len(Rows[k].items) =
              Cardinality({i \in ItemIndexes : ShareOf(i, k - 1) > 0})
         /\ NearestHundredth(Rows[k].itemsTotal, RSumSeq(LineCosts(Rows[k].items)))
    /\ (\A i \in ItemIndexes : TotalShares(i) = 0) =>
         /\ \A k \in 1..Len(Rows) :
              /\ Rows[k].itemsTotal = RZero
              /\ Rows[k].taxPortion = RZero
              /\ Rows[k].total = RZero
         /\ splitResults.splitTotal = RZero

\* the unclaimed Salad, settled between two participants
C5_Witness ==
  /\ Settled
  /\ receipt = SaladReceipt
  /\ itemAssignments[0] = EmptyMap
  /\ Len(Rows) = 2
  /\ splitResults.splitTotal = RZero
  /\ splitResults.originalTotal = 2000

\* itemsTotal / subtotal * tax, or 0 for a subtotal of 0
TaxPortionOf(itemsTotal) ==
  IF ItemsSubtotal > 0
    THEN Rat(itemsTotal[1] * TaxOrZero, itemsTotal[2] * ItemsSubtotal)
    ELSE RZero

TaxRuleHolds(rows) ==
  LET rs == rows
  IN  \A k \in 1..Len(rs) :
        /\ rs[k].taxPortion = TaxPortionOf(rs[k].itemsTotal)
        /\ Finite(rs[k].itemsTotal)
        /\ Finite(rs[k].taxPortion)
        /\ Finite(rs[k].total)

(***************************************************************************)
(* C6.  In calculateSplit's rows before rounding and in participantTotals, *)
(* a row's tax portion is itemsTotal / subtotal * tax when the subtotal    *)
(* (quantity * price over all items, claimed or not) is positive and 0     *)
(* when it is 0, a missing tax counting as 0; and every amount either      *)
(* function computes is a number (nothing is divided by zero).             *)
(***************************************************************************)
C6_TaxPortionRule ==
  /\ TaxRuleHolds(RawRows)
  /\ TaxRuleHolds(participantTotals)
  /\ Settled =>
       /\ \A k \in 1..Len(Rows) :
            /\ Finite(Rows[k].itemsTotal)
            /\ Finite(Rows[k].taxPortion)
            /\ Finite(Rows[k].total)
            /\ \A j \in 1..Len(Rows[k].items) : Finite(Rows[k].items[j].cost)
       /\ Finite(splitResults.splitTotal)

\* a subtotal of 0 with a tax of 5, the free item claimed
C6_Witness ==
  /\ Settled
  /\ receipt = WaterReceipt
  /\ ShareOf(0, 0) > 0
  /\ Rows[1].taxPortion = RZero
  /\ participantTotals[1].taxPortion = RZero

\* three named participants hold equal shares of the Pizza
ThreeWayPizza ==
  /\ receipt = PizzaReceipt
  /\ Len(ValidParticipants(participants)) = 3
  /\ DOMAIN itemAssignments[0] = {0, 1, 2}
  /\ \A p \in {1, 2} : itemAssignments[0][p] = itemAssignments[0][0]

(***************************************************************************)
(* C7.  Each row of the settlement holds the total, the itemsTotal and the *)
(* taxPortion of the row before rounding, each rounded on its own to the   *)
(* nearest hundredth, a half going up; splitTotal is the sum of the        *)
(* rounded totals.  One item of 10.00 without tax shared equally by three  *)
(* participants: 3.33 each, splitTotal 9.99.                               *)
(***************************************************************************)
C7_RoundedIndependently ==
  Settled =>
    /\ LET raws == RawRows
       IN  /\ Len(Rows) = Len(raws)
           /\ \A k \in 1..Len(Rows) :
                /\ NearestHundredth(Rows[k].total, raws[k].total)
                /\ NearestHundredth(Rows[k].itemsTotal, raws[k].itemsTotal)
                /\ NearestHundredth(Rows[k].taxPortion, raws[k].taxPortion)
    /\ splitResults.splitTotal = RSumSeq(RowTotals(Rows))
    /\ ThreeWayPizza =>
         /\ \A k \in 1..3 : Rows[k].total = RInt(333)
         /\ splitResults.splitTotal = RInt(999)

\* the three-way Pizza, settled with its cent of drift
C7_Witness ==
  /\ Settled
  /\ ThreeWayPizza
  /\ splitResults.splitTotal = RInt(999)
  /\ splitResults.originalTotal = 1000

(***************************************************************************)
(* C8 (as stated).  In a state that calculateSplit settled, for every slot *)
(* with a non-blank name the settlement's itemsTotal, taxPortion and total *)
(* of that participant are what participantTotals reports for the slot,    *)
(* rounded to the hundredth.                                               *)
(***************************************************************************)
C8_SettlementIsRoundedPreview ==
  (currentStep = "results" /\ splitResults # NullResults) =>
    \A k \in 1..Len(participants) :
      Trim(participants[k]) # "" =>
        LET row == Rows[NamedBefore(participants, k - 1) + 1]
            preview == participantTotals[k]
        IN  /\ NearestHundredth(row.itemsTotal, preview.itemsTotal)
            /\ NearestHundredth(row.taxPortion, preview.taxPortion)
            /\ NearestHundredth(row.total, preview.total)

(***************************************************************************)
(* C9 (as stated).  In every state, a slot whose trimmed name is empty has *)
(* no row in the settlement and has itemsTotal, taxPortion and total 0 in  *)
(* participantTotals.                                                      *)
(***************************************************************************)
C9_BlankSlotHasNoMoney ==
  /\ (currentStep = "results" /\ splitResults # NullResults) =>
       /\ Len(Rows) = Len(ValidParticipants(participants))
       /\ \A j \in 1..Len(Rows) : Rows[j].name # ""
  /\ receipt # NullReceipt =>
       \A k \in 1..Len(participants) :
         Trim(participants[k]) = "" =>
           /\ participantTotals[k].itemsTotal = RZero
           /\ participantTotals[k].taxPortion = RZero
           /\ participantTotals[k].total = RZero

(***************************************************************************)
(* C10.  A step of assignItemToSelected(i) sets the selected participant's *)
(* share on item i to 1, and no other share, when the pair is unassigned;  *)
(* it leaves the assignment map as it is when the pair holds a share,      *)
(* whatever the share, and when no participant is selected; and after a    *)
(* step of assignItemToSelected(i) a second one changes nothing.           *)
(***************************************************************************)
C10_AssignIsIdempotent ==
  [][\A i \in ItemIndexes :
       lastOp' = [op |-> "assignItemToSelected", args |-> <<i>>] =>
         LET sel == selectedParticipantIndex
         IN  /\ sel = NullIndex => itemAssignments' = itemAssignments
             /\ (sel # NullIndex /\ ShareOf(i, sel) = 0) =>
                  \A j \in ItemIndexes, p \in 0..MaxSize :
                    ShareIn(itemAssignments', j, p) =
                      IF j = i /\ p = sel THEN 1 ELSE ShareOf(j, p)
             /\ (sel # NullIndex /\ ShareOf(i, sel) > 0) =>
                  itemAssignments' = itemAssignments
             /\ lastOp = lastOp' => itemAssignments' = itemAssignments]_vars

\* assignItemToSelected ran on a pair that held a share of 2, and the share
\* is still 2
C10_Witness ==
  /\ lastOp.op = "assignItemToSelected"
  /\ selectedParticipantIndex # NullIndex
  /\ ShareOf(lastOp.args[1], selectedParticipantIndex) = 2

(***************************************************************************)
(* What the properties of single handlers read off lastOp.                *)
(***************************************************************************)
\* the share the key p held on item i when the handler was called
ShareBefore(i, p) == ShareIn(lastOp.before.itemAssignments, i, p)

\* every key a share may sit under, in the state before or after
AllItemKeys ==
  DOMAIN itemAssignments \cup DOMAIN lastOp.before.itemAssignments

AllShareKeys ==
  UNION {DOMAIN itemAssignments[i] : i \in DOMAIN itemAssignments}
    \cup UNION {DOMAIN lastOp.before.itemAssignments[i] :
                  i \in DOMAIN lastOp.before.itemAssignments}

\* the pair (i, p) is a key of the assignment map
PairStored(i, p) ==
  i \in DOMAIN itemAssignments /\ p \in DOMAIN itemAssignments[i]

\* no pair but (i, p) has another share than before
OtherPairsKept(i, p) ==
  \A j \in AllItemKeys, q \in AllShareKeys :
    (j # i \/ q # p) => ShareOf(j, q) = ShareBefore(j, q)

(***************************************************************************)
(* C11.  Every share stored in the assignment map is an integer >= 1, in   *)
(* the drawn states and after any handler.  decreaseItemQuantity on a      *)
(* share of 1 removes the pair's key, on a share n > 1 stores n - 1, and   *)
(* on an absent pair leaves the map as it was.                             *)
(***************************************************************************)
C11_SharesAtLeastOne ==
  /\ \A i \in DOMAIN itemAssignments : \A p \in DOMAIN itemAssignments[i] :
       itemAssignments[i][p] \in Nat /\ itemAssignments[i][p] >= 1
  /\ lastOp.op = "decreaseItemQuantity" =>
       LET i == lastOp.args[1]
           p == lastOp.args[2]
       IN  /\ ShareBefore(i, p) = 1 => ~PairStored(i, p)
           /\ ShareBefore(i, p) > 1 =>
                PairStored(i, p) /\ itemAssignments[i][p] = ShareBefore(i, p) - 1
           /\ ShareBefore(i, p) = 0 =>
                itemAssignments = lastOp.before.itemAssignments

\* a share of 1 was decreased while another participant holds the item
C11_Witness ==
  /\ lastOp.op = "decreaseItemQuantity"
  /\ ShareBefore(lastOp.args[1], lastOp.args[2]) = 1
  /\ ~PairStored(lastOp.args[1], lastOp.args[2])
  /\ TotalShares(lastOp.args[1]) = 2

(***************************************************************************)
(* C12.  increaseItemQuantity(i, p) leaves the pair with the share it had  *)
(* plus 1 (1 when it was absent) and every other pair with the share it    *)
(* had.                                                                    *)
(***************************************************************************)
C12_IncreaseAddsOne ==
  lastOp.op = "increaseItemQuantity" =>
    LET i == lastOp.args[1]
        p == lastOp.args[2]
    IN  /\ PairStored(i, p)
        /\ itemAssignments[i][p] = ShareBefore(i, p) + 1
        /\ OtherPairsKept(i, p)

\* an absent pair was created at 1 next to a pair that holds 2
C12_Witness ==
  /\ lastOp.op = "increaseItemQuantity"
  /\ ShareBefore(lastOp.args[1], lastOp.args[2]) = 0
  /\ ShareOf(lastOp.args[1], lastOp.args[2]) = 1
  /\ TotalShares(lastOp.args[1]) = 3

(***************************************************************************)
(* C13.  removeAssignment(i, p) leaves the pair absent whatever share it   *)
(* held and every other pair with the share it had; on a pair that held no *)
(* share the assignment map equals what it was.                            *)
(***************************************************************************)
C13_RemoveAssignmentDeletes ==
  lastOp.op = "removeAssignment" =>
    LET i == lastOp.args[1]
        p == lastOp.args[2]
    IN  /\ ~PairStored(i, p)
        /\ OtherPairsKept(i, p)
        /\ ShareBefore(i, p) = 0 =>
             itemAssignments = lastOp.before.itemAssignments

\* a share of 2 was removed in one call
C13_Witness ==
  /\ lastOp.op = "removeAssignment"
  /\ ShareBefore(lastOp.args[1], lastOp.args[2]) = 2
  /\ ~PairStored(lastOp.args[1], lastOp.args[2])

(***************************************************************************)
(* C14.  After removeItem(k) on a receipt with more than one item, the     *)
(* items before k are where they were with the entry they had, the items   *)
(* after k are one index lower with the entry they had, and there is no    *)
(* entry beyond the remaining items: the removed item's entry is gone.     *)
(***************************************************************************)
C14_RemoveItemReindexes ==
  (lastOp.op = "removeItem" /\ Len(lastOp.before.receipt.items) > 1) =>
    LET k == lastOp.args[1]
        items == lastOp.before.receipt.items
        old == lastOp.before.itemAssignments
    IN  /\ Len(receipt.items) = Len(items) - 1
        /\ DOMAIN itemAssignments = 0..(Len(items) - 2)
        /\ \A j \in 0..(Len(items) - 1) :
             /\ j < k => /\ At(receipt.items, j) = At(items, j)
                         /\ itemAssignments[j] = old[j]
             /\ j > k => /\ At(receipt.items, j - 1) = At(items, j)
                         /\ itemAssignments[j - 1] = old[j]

\* the first of two items was removed; the second, now first, kept its
\* entry, which is not the one the removed item had
C14_Witness ==
  /\ lastOp.op = "removeItem"
  /\ lastOp.args = <<0>>
  /\ Len(lastOp.before.receipt.items) = 2
  /\ itemAssignments[0] = lastOp.before.itemAssignments[1]
  /\ itemAssignments[0] # lastOp.before.itemAssignments[0]
  /\ itemAssignments[0] # EmptyMap

(***************************************************************************)
(* C15.  removeItem on a receipt with exactly one item leaves the receipt  *)
(* (items, tax, total) and the assignment map as they were; a receipt that *)
(* has an item still has one after any handler.                            *)
(***************************************************************************)
C15_LastItemStays ==
  /\ (lastOp.op = "removeItem" /\ Len(lastOp.before.receipt.items) = 1) =>
       /\ receipt = lastOp.before.receipt
       /\ itemAssignments = lastOp.before.itemAssignments
  /\ receipt # NullReceipt /\ Len(receipt.items) >= 1

\* removeItem was refused on the only item, which somebody holds
C15_Witness ==
  /\ lastOp.op = "removeItem"
  /\ Len(lastOp.before.receipt.items) = 1
  /\ Len(receipt.items) = 1
  /\ TotalShares(0) > 0

(***************************************************************************)
(* C16.  After removeParticipant(k) with more than one slot, for every     *)
(* item the share under each index j < k is the one it was, the share that *)
(* was under j > k is under j - 1, and the entry has as many keys as it    *)
(* had apart from k: the shares of k are dropped and no two are merged.    *)
(***************************************************************************)
C16_RemoveParticipantReindexes ==
  (lastOp.op = "removeParticipant" /\ Len(lastOp.before.participants) > 1) =>
    LET k == lastOp.args[1]
        old == lastOp.before.itemAssignments
        slots == 0..(Len(lastOp.before.participants) - 1)
    IN  /\ DOMAIN itemAssignments = DOMAIN old
        /\ \A i \in DOMAIN old :
             /\ \A j \in slots :
                  /\ j < k => ShareOf(i, j) = ShareBefore(i, j)
                  /\ j > k => ShareOf(i, j - 1) = ShareBefore(i, j)
             /\ Cardinality(DOMAIN itemAssignments[i]) =
                  Cardinality(DOMAIN old[i] \ {k})

\* the first of two slots was removed: its share of 1 is gone and the share
\* of 2 that the second slot held is under index 0
C16_Witness ==
  /\ lastOp.op = "removeParticipant"
  /\ lastOp.args = <<0>>
  /\ lastOp.before.itemAssignments[0] = (0 :> 1 @@ 1 :> 2)
  /\ itemAssignments[0] = (0 :> 2)

(***************************************************************************)
(* Which edit of the receipt the last handler was, read off its arguments  *)
(* and the state it was called in.                                         *)
(***************************************************************************)
\* the index named an item of the receipt the handler was called on
ItemWasThere(index) ==
  index \in 0..(Len(lastOp.before.receipt.items) - 1)

ItemSetters == {"updateItemName", "updateItemQuantity", "updateItemPrice"}

\* the handler was called with a value or an index it does not take
RejectedEdit ==
  \/ /\ lastOp.op = "updateItemQuantity"
     /\ lastOp.args[2].nan \/ lastOp.args[2].v <= 0
  \/ /\ lastOp.op = "updateItemPrice"
     /\ lastOp.args[2].nan \/ lastOp.args[2].v < 0
  \/ /\ lastOp.op = "updateTax"
     /\ lastOp.args[1].nan \/ lastOp.args[1].v < 0
  \/ /\ lastOp.op \in ItemSetters
     /\ ~ItemWasThere(lastOp.args[1])

\* a quantity, price, tax or remove-item edit that went through
SuccessfulEdit ==
  \/ /\ lastOp.op = "updateItemQuantity"
     /\ ItemWasThere(lastOp.args[1])
     /\ ~lastOp.args[2].nan /\ lastOp.args[2].v > 0
  \/ /\ lastOp.op = "updateItemPrice"
     /\ ItemWasThere(lastOp.args[1])
     /\ ~lastOp.args[2].nan /\ lastOp.args[2].v >= 0
  \/ /\ lastOp.op = "updateTax"
     /\ ~lastOp.args[1].nan /\ lastOp.args[1].v >= 0
  \/ /\ lastOp.op = "removeItem"
     /\ Len(lastOp.before.receipt.items) > 1

\* the stored total is what the items and the tax add up to
TotalMatchesItems == receipt.total = ItemsSubtotal + TaxOrZero

(***************************************************************************)
(* C17.  updateItemQuantity with a value that is not a number or is <= 0,  *)
(* updateItemPrice and updateTax with a value that is not a number or is   *)
(* < 0, and an item setter with an index outside the items leave the       *)
(* receipt (items, tax, total) and the assignment map as they were and set *)
(* no error.                                                               *)
(***************************************************************************)
C17_InvalidInputIgnored ==
  RejectedEdit =>
    /\ receipt = lastOp.before.receipt
    /\ itemAssignments = lastOp.before.itemAssignments
    /\ error = lastOp.before.error
    /\ error = NoError

\* a quantity of 0 was typed for an item the receipt has
C17_Witness ==
  /\ lastOp.op = "updateItemQuantity"
  /\ ItemWasThere(lastOp.args[1])
  /\ lastOp.args[2] = Num(0)
  /\ receipt = lastOp.before.receipt

(***************************************************************************)
(* C18.  Right after a successful updateItemQuantity, updateItemPrice,     *)
(* updateTax or removeItem the stored total is the sum of quantity * price *)
(* over the current items plus the current tax, whatever it was before.    *)
(***************************************************************************)
C18_TotalRecalculatedAfterEdit == SuccessfulEdit => TotalMatchesItems

\* a quantity was stored on a receipt whose total disagreed with its items:
\* the total moved from 2500 to what the items and the tax now add up to
C18_Witness ==
  /\ lastOp.op = "updateItemQuantity"
  /\ SuccessfulEdit
  /\ lastOp.before.receipt = BeerReceipt
  /\ receipt.total # lastOp.before.receipt.total
  /\ receipt.tax > 0
  /\ TotalMatchesItems

(***************************************************************************)
(* C19.  After a user edit to the items or to the tax, addNewItem          *)
(* included, the stored total is the sum of quantity * price over all      *)
(* items plus the tax.                                                     *)
(***************************************************************************)
C19_TotalMatchesAfterAnyEdit ==
  (SuccessfulEdit \/ lastOp.op = "addNewItem") => TotalMatchesItems

(***************************************************************************)
(* C20.  A handler that is not a successful quantity, price, tax or        *)
(* remove-item edit leaves the stored total what it was, also where it     *)
(* disagrees with the items; calculateSplit reports that stored total as   *)
(* originalTotal.                                                          *)
(***************************************************************************)
C20_TotalKeptUntilEdit ==
  /\ (lastOp.op # "init" /\ ~SuccessfulEdit) =>
       receipt.total = lastOp.before.receipt.total
  /\ (lastOp.op = "calculateSplit" /\ splitResults # NullResults) =>
       splitResults.originalTotal = receipt.total

\* the split of a receipt whose total of 2500 is not what its items and tax
\* add up to reports 2500
C20_Witness ==
  /\ lastOp.op = "calculateSplit"
  /\ splitResults # NullResults
  /\ receipt = BeerReceipt
  /\ ~TotalMatchesItems
  /\ splitResults.originalTotal = 2500

(***************************************************************************)
(* C21.  updateItemName changes only the name of the item at an index the  *)
(* receipt has: every other item, every quantity and price, the tax, the   *)
(* stored total and the assignment map are what they were; with an index   *)
(* outside the items nothing changes.                                      *)
(***************************************************************************)
C21_RenameChangesNameOnly ==
  lastOp.op = "updateItemName" =>
    LET k == lastOp.args[1]
        old == lastOp.before.receipt
    IN  /\ itemAssignments = lastOp.before.itemAssignments
        /\ receipt.tax = old.tax
        /\ receipt.total = old.total
        /\ Len(receipt.items) = Len(old.items)
        /\ \A j \in 0..(Len(old.items) - 1) :
             /\ At(receipt.items, j).quantity = At(old.items, j).quantity
             /\ At(receipt.items, j).price = At(old.items, j).price
             /\ At(receipt.items, j).name =
                  IF j = k THEN lastOp.args[2] ELSE At(old.items, j).name
        /\ ~ItemWasThere(k) => receipt = old

\* the second of two items was renamed and the first kept its name
C21_Witness ==
  /\ lastOp.op = "updateItemName"
  /\ lastOp.args[1] = 1
  /\ Len(receipt.items) = 2
  /\ At(receipt.items, 1).name = lastOp.args[2]
  /\ At(receipt.items, 1).name # At(lastOp.before.receipt.items, 1).name
  /\ At(receipt.items, 0).name = At(lastOp.before.receipt.items, 0).name

(***************************************************************************)
(* C22.  calculateSplit called when no participant has a name that is not  *)
(* blank after trimming sets the error 'Please add at least one            *)
(* participant' and leaves splitResults, currentStep, the receipt and the  *)
(* assignment map as they were.                                            *)
(***************************************************************************)
C22_SplitRefusedWheneverNoParticipant ==
  (/\ lastOp.op = "calculateSplit"
   /\ \A i \in DOMAIN lastOp.before.participants :
        Trim(lastOp.before.participants[i]) = "")
    => /\ error = "Please add at least one participant"
       /\ splitResults = lastOp.before.splitResults
       /\ currentStep = lastOp.before.currentStep
       /\ receipt = lastOp.before.receipt
       /\ itemAssignments = lastOp.before.itemAssignments

(***************************************************************************)
(* C22, with a receipt loaded.  calculateSplit called on a receipt when no *)
(* participant has a name that is not blank after trimming sets the error  *)
(* 'Please add at least one participant' and leaves splitResults,          *)
(* currentStep, the receipt and the assignment map as they were.           *)
(***************************************************************************)
C22_SplitRefusedWithoutParticipant ==
  (/\ lastOp.op = "calculateSplit"
   /\ lastOp.before.receipt # NullReceipt
   /\ \A i \in DOMAIN lastOp.before.participants :
        Trim(lastOp.before.participants[i]) = "")
    => /\ error = "Please add at least one participant"
       /\ splitResults = lastOp.before.splitResults
       /\ currentStep = lastOp.before.currentStep
       /\ receipt = lastOp.before.receipt
       /\ itemAssignments = lastOp.before.itemAssignments

\* calculateSplit was refused on names that are blank, with shares in the map
\* and a settlement stored earlier
C22_Witness ==
  /\ lastOp.op = "calculateSplit"
  /\ participants = <<" ", "">>
  /\ itemAssignments = ClaimedBeer
  /\ error = "Please add at least one participant"
  /\ splitResults = StoredResults
  /\ currentStep = "participants"

(***************************************************************************)
(* C23.  In every reachable state in which currentStep is 'assign' or      *)
(* 'results' the receipt is not null and has at least one item.            *)
(***************************************************************************)
C23_ReceiptWithItemWhileAssigning ==
  currentStep \in {"assign", "results"} =>
    /\ receipt # NullReceipt
    /\ Len(receipt.items) >= 1

(***************************************************************************)
(* Which completion of a request the last step was.                        *)
(***************************************************************************)
\* the request rejected, or its answer held no receipt
ParseFailed ==
  \/ lastOp.op = "parseReject"
  \/ lastOp.op = "parseResolve" /\ lastOp.args[1] = NullReceipt

\* the request resolved with a receipt
ParseSucceeded ==
  lastOp.op = "parseResolve" /\ lastOp.args[1] # NullReceipt

(***************************************************************************)
(* C24.  When a background parse fails, because the request rejects or its *)
(* response is not a usable receipt, the receipt, the participant list and *)
(* the assignment map are what they were before the parse completed.       *)
(***************************************************************************)
C24_FailedParseKeepsSession ==
  ParseFailed =>
    /\ receipt = lastOp.before.receipt
    /\ participants = lastOp.before.participants
    /\ itemAssignments = lastOp.before.itemAssignments

(***************************************************************************)
(* C25.  When a parse completes successfully the assignment map is         *)
(* replaced by one that has an empty entry for each item index 0..n-1 of   *)
(* the new receipt and nothing else: no assignment made against the former *)
(* receipt is left.                                                        *)
(***************************************************************************)
C25_ParseResetsAssignments ==
  ParseSucceeded =>
    /\ receipt = lastOp.args[1]
    /\ DOMAIN itemAssignments = 0..(Len(receipt.items) - 1)
    /\ \A i \in DOMAIN itemAssignments : DOMAIN itemAssignments[i] = {}

\* a one-item receipt arrived in a session that held shares of two items
C25_Witness ==
  /\ ParseSucceeded
  /\ lastOp.before.itemAssignments = ClaimedBeer
  /\ receipt = PizzaReceipt
  /\ DOMAIN itemAssignments = {0}
  /\ itemAssignments[0] = EmptyMap

(***************************************************************************)
(* C26.  splitResults changes only on a successful calculateSplit, which   *)
(* replaces it by the settlement of the current receipt, participants and  *)
(* assignment map, whatever was stored, and on resetApp, which sets it to  *)
(* null.  Receipt edits, participant and assignment handlers, navigation,  *)
(* a refused calculateSplit and the completion of a parse leave a stored   *)
(* settlement as it was.                                                   *)
(***************************************************************************)
C26_SettlementChangesOnSplitAndReset ==
  /\ lastOp.op \notin {"init", "calculateSplit", "resetApp"} =>
       splitResults = lastOp.before.splitResults
  /\ lastOp.op = "resetApp" => splitResults = NullResults
  /\ lastOp.op = "calculateSplit" =>
       IF /\ lastOp.before.receipt # NullReceipt
          /\ \E i \in DOMAIN lastOp.before.participants :
               Trim(lastOp.before.participants[i]) # ""
         THEN splitResults = SplitOf(receipt, participants, itemAssignments)
         ELSE splitResults = lastOp.before.splitResults

\* a price was stored while a settlement of an earlier state was kept
C26_Witness ==
  /\ lastOp.op = "updateItemPrice"
  /\ SuccessfulEdit
  /\ receipt # lastOp.before.receipt
  /\ lastOp.before.splitResults = StoredResults
  /\ splitResults = StoredResults

(***************************************************************************)
(* C27.  After resetApp no completion of a parse request that was started  *)
(* before the reset installs a receipt, resets the assignment map or       *)
(* changes parseProgress.                                                  *)
(***************************************************************************)
C27_ResetSessionUntouchedByOldParse ==
  lastOp.op \in {"parseResolveAfterReset", "parseRejectAfterReset"} =>
    /\ receipt = lastOp.before.receipt
    /\ itemAssignments = lastOp.before.itemAssignments
    /\ parseProgress = lastOp.before.parseProgress

(***************************************************************************)
(* The edges of the wizard: what a step that changes currentStep starts    *)
(* from, where it leads, and what it finds and leaves.                     *)
(***************************************************************************)
\* startParsing with a file selected: a request is sent
StartedParsing == file /\ pending' = pending + 1

\* proceedToAssign went through
ProceededToReview ==
  /\ \E i \in DOMAIN participants : Trim(participants[i]) # ""
  /\ parseProgress = "complete"
  /\ receipt # NullReceipt

\* proceedToAssignFromReview went through
ProceededToAssign ==
  /\ receipt # NullReceipt
  /\ Len(receipt.items) >= 1
  /\ selectedParticipantIndex' = NullIndex

\* calculateSplit went through
SplitStored ==
  /\ receipt # NullReceipt
  /\ \E i \in DOMAIN participants : Trim(participants[i]) # ""
  /\ splitResults' # NullResults
  /\ splitResults'.originalTotal = receipt.total

\* resetApp
SessionCleared ==
  /\ receipt' = NullReceipt
  /\ participants' = <<"">>
  /\ splitResults' = NullResults

WizardEdge ==
  \/ currentStep = "landing" /\ currentStep' = "upload"
  \/ currentStep = "upload" /\ currentStep' = "landing"
  \/ currentStep = "upload" /\ currentStep' = "participants" /\ StartedParsing
  \/ currentStep = "participants" /\ currentStep' = "upload"
  \/ currentStep = "participants" /\ currentStep' = "review"
       /\ ProceededToReview
  \/ currentStep = "review" /\ currentStep' = "participants"
  \/ currentStep = "review" /\ currentStep' = "assign" /\ ProceededToAssign
  \/ currentStep = "assign" /\ currentStep' = "review"
  \/ currentStep = "assign" /\ currentStep' = "results" /\ SplitStored
  \/ currentStep = "results" /\ currentStep' = "assign"
  \/ currentStep = "results" /\ currentStep' = "landing" /\ SessionCleared

(***************************************************************************)
(* C28.  currentStep changes only along the wizard's edges: landing <->    *)
(* upload, upload -> participants (by startParsing with a file selected)   *)
(* and back, participants -> review (by a successful proceedToAssign) and  *)
(* back, review -> assign (by a successful proceedToAssignFromReview) and  *)
(* back, assign -> results (by a successful calculateSplit), results ->    *)
(* assign, and results -> landing by resetApp.  Hence every way into       *)
(* 'results' leads through participants, review and assign.                *)
(***************************************************************************)
C28_StepsFollowWizardEdges ==
  [][currentStep' # currentStep => WizardEdge]_vars

\* the results were left by "Back": the assign step shows a share while the
\* settlement of the split before it is still stored
C28_Witness ==
  /\ currentStep = "assign"
  /\ splitResults # NullResults
  /\ TotalShares(0) > 0

(***************************************************************************)
(* What C29 assumes of a settled state.                                    *)
(***************************************************************************)
\* every item that costs something has a claim
EveryCostClaimed ==
  \A i \in ItemIndexes : LineTotal(i) > 0 => TotalShares(i) > 0

\* every claim sits under the index of a row of the settlement
EveryClaimSettled ==
  \A i \in DOMAIN itemAssignments :
    \A p \in DOMAIN itemAssignments[i] : p < Len(Rows)

\* splitTotal is within half a hundredth per row of originalTotal
WithinHalfCentPerRow ==
  RLeq(RAbs(RSub(splitResults.splitTotal, RInt(splitResults.originalTotal))),
       Rat(Len(Rows), 2))

(***************************************************************************)
(* C29 (as stated).  When the stored total is subtotal + tax, every item   *)
(* with a positive quantity * price has a claim and every claim belongs to *)
(* a participant of the settlement, splitTotal differs from originalTotal  *)
(* by at most half a cent per participant of the settlement.               *)
(***************************************************************************)
C29_SplitTotalNearOriginal ==
  (Settled /\ TotalMatchesItems /\ EveryCostClaimed /\ EveryClaimSettled)
    => WithinHalfCentPerRow

(***************************************************************************)
(* C29, for a positive subtotal.  When the items subtotal is positive, the *)
(* stored total is subtotal + tax, every item with a positive              *)
(* quantity * price has a claim and every claim belongs to a participant   *)
(* of the settlement, splitTotal differs from originalTotal by at most     *)
(* half a cent per participant of the settlement.                          *)
(***************************************************************************)
C29_SplitTotalNearOriginalOfPricedItems ==
  (Settled /\ ItemsSubtotal > 0 /\ TotalMatchesItems /\ EveryCostClaimed
     /\ EveryClaimSettled)
    => WithinHalfCentPerRow

\* one item of 0.01 shared equally by two: 0.01 each, splitTotal 0.02, the
\* whole allowance of two half cents away from the total of 0.01
C29_Witness ==
  /\ Settled
  /\ receipt = MintReceipt
  /\ Len(Rows) = 2
  /\ EveryClaimSettled
  /\ splitResults.splitTotal = RInt(2)
  /\ splitResults.originalTotal = 1

(***************************************************************************)
(* What C30 counts for item i.                                             *)
(***************************************************************************)
\* the indexes that hold a nonzero share on item i
HoldersOf(i) ==
  {p \in DOMAIN GetOr(itemAssignments, i, EmptyMap) : ShareOf(i, p) > 0}

\* the rows of the settlement that have a line for item i: calculateSplit
\* gives row k a line for each item its index k - 1 holds a share on
RowsListing(i) == {k \in 1..Len(Rows) : ShareOf(i, k - 1) > 0}

(***************************************************************************)
(* C30.  For every item line of a row of the settlement, sharedWith is the *)
(* number of distinct participants that hold a nonzero share on the item,  *)
(* and also the number of rows of the settlement that list the item.       *)
(***************************************************************************)
C30_SharedWithCountsHolders ==
  (currentStep = "results" /\ splitResults # NullResults) =>
    \A k \in 1..Len(Rows) :
      \A i \in ItemIndexes :
        ShareOf(i, k - 1) > 0 =>
          LET line == Rows[k].items[LineRank(i, k - 1)]
          IN  /\ line.sharedWith = Cardinality(HoldersOf(i))
              /\ line.sharedWith = Cardinality(RowsListing(i))

\* the settlement row of the named slot k (1-based) of the list ps
RowOfSlot(r, ps, asg, k) == SplitOf(r, ps, asg).participants[NamedBefore(ps, k)]

\* the amounts of two rows are the same
SameRowAmounts(a, b) ==
  /\ a.itemsTotal = b.itemsTotal
  /\ a.taxPortion = b.taxPortion
  /\ a.total = b.total

(***************************************************************************)
(* C31 (as stated).  A step that changes names on the participants step    *)
(* and neither adds nor removes a slot leaves every named slot whose own   *)
(* name it did not change (the assignment map is not changed by the step)  *)
(* with the settlement amounts it had: itemsTotal, taxPortion and total of *)
(* its row are the same before and after.                                  *)
(***************************************************************************)
C31_RenamingKeepsOthersAmounts ==
  [][(/\ currentStep = "participants"
      /\ receipt # NullReceipt
      /\ Len(participants') = Len(participants)
      /\ participants' # participants
      /\ itemAssignments' = itemAssignments)
     => \A k \in 1..Len(participants) :
          (Trim(participants[k]) # "" /\ participants'[k] = participants[k])
            => SameRowAmounts(
                 RowOfSlot(receipt, participants, itemAssignments, k),
                 RowOfSlot(receipt', participants', itemAssignments', k))]_vars

(***************************************************************************)
(* C32 (as stated).  While currentStep is 'review', 'assign' or 'results', *)
(* the completion of a request to /api/parse (the only step that takes a   *)
(* request out of flight) leaves the receipt and the assignment map as     *)
(* they were.                                                              *)
(***************************************************************************)
C32_ParseKeepsReviewedSession ==
  [][(currentStep \in {"review", "assign", "results"} /\ pending' < pending)
     => (receipt' = receipt /\ itemAssignments' = itemAssignments)]_vars

\* a request to /api/parse is outstanding and the page shows it
ParsingShown ==
  /\ parseProgress \in {"uploading", "parsing"}
  /\ isParsingInBackground

(***************************************************************************)
(* C33 (as stated).  Whenever a request to /api/parse is outstanding,      *)
(* parseProgress is 'uploading' or 'parsing' and isParsingInBackground is  *)
(* true, and no step takes currentStep from 'participants' to 'review'     *)
(* while a request is outstanding.                                         *)
(***************************************************************************)
C33_NoReviewWhileParsing ==
  /\ [](pending > 0 => ParsingShown)
  /\ [][(currentStep = "participants" /\ currentStep' = "review")
        => pending = 0]_vars

(***************************************************************************)
(* C34.  When every request to /api/parse is answered or rejected in the   *)
(* end, a state with parseProgress 'uploading' or 'parsing' is followed by *)
(* one with parseProgress 'complete' or 'error' and isParsingInBackground  *)
(* false.                                                                  *)
(***************************************************************************)
C34_ParsingEnds ==
  (parseProgress \in {"uploading", "parsing"})
    ~> (parseProgress \in {"complete", "error"} /\ ~isParsingInBackground)

\* a second request was started while the first was in flight, and both
\* have completed, the last one by a rejection or an answer without receipt
C34_Witness ==
  /\ currentStep = "participants"
  /\ pending = 0
  /\ parseProgress = "error"
  /\ ~isParsingInBackground
  /\ receipt # NullReceipt

(***************************************************************************)
(* C35.  In every state with a receipt, every item key of the assignment   *)
(* map is an index of receipt.items and every participant key is an index  *)
(* of the participants list.                                               *)
(***************************************************************************)
C35_KeysAreIndexes ==
  receipt # NullReceipt =>
    /\ DOMAIN itemAssignments \subseteq 0..(Len(receipt.items) - 1)
    /\ \A i \in DOMAIN itemAssignments :
         DOMAIN itemAssignments[i] \subseteq 0..(Len(participants) - 1)

\* the last slot's index holds a share on an item added on the review step
C35_Witness ==
  /\ receipt # NullReceipt
  /\ Len(receipt.items) = PageItems
  /\ Len(participants) = PageParticipants
  /\ ShareOf(PageItems - 1, PageParticipants - 1) > 0
  /\ currentStep = "participants"

(***************************************************************************)
(* C36 (as stated).  In every state in which currentStep is 'review',      *)
(* 'assign' or 'results', the receipt is not null and at least one         *)
(* participant has a non-blank trimmed name; in 'results' splitResults is  *)
(* not null.                                                               *)
(***************************************************************************)
C36_ReviewedSessionIsComplete ==
  /\ currentStep \in {"review", "assign", "results"} =>
       /\ receipt # NullReceipt
       /\ Len(ValidParticipants(participants)) > 0
  /\ currentStep = "results" => splitResults # NullResults

\* the parts of C36 about the names and the settlement
C36_NamedAndSettled ==
  /\ currentStep \in {"review", "assign", "results"} =>
       Len(ValidParticipants(participants)) > 0
  /\ currentStep = "results" => splitResults # NullResults

\* total - (itemsTotal + taxPortion) of a settlement row
RoundingGap(row) == RSub(row.total, RAdd(row.itemsTotal, row.taxPortion))

(***************************************************************************)
(* C37.  In every settlement, every row's total differs from the sum of    *)
(* its itemsTotal and its taxPortion (all three as stored, rounded) by at  *)
(* most 0.01.                                                              *)
(***************************************************************************)
C37_TotalNearSumOfParts ==
  (currentStep = "results" /\ splitResults # NullResults) =>
    \A k \in 1..Len(Rows) :
      LET gap == RoundingGap(Rows[k])
      IN  /\ Finite(gap)
          /\ RLeq(RAbs(gap), RInt(1))

\* a settlement with a row whose total is 0.01 away from the sum of its parts
C37_Witness ==
  /\ Settled
  /\ \E k \in 1..Len(Rows) : RAbs(RoundingGap(Rows[k])) = RInt(1)

(***************************************************************************)
(* C38.  Whenever currentStep is 'assign', selectedParticipantIndex is     *)
(* null or smaller than the number of participants with a non-blank        *)
(* trimmed name; a step from 'review' to 'assign' leaves it null, and so   *)
(* does resetApp (the step from 'results' to 'landing').                   *)
(***************************************************************************)
C38_SelectionIsAPickerIndex ==
  /\ [](currentStep = "assign" =>
          \/ selectedParticipantIndex = NullIndex
          \/ /\ selectedParticipantIndex >= 0
             /\ selectedParticipantIndex < Len(ValidParticipants(participants)))
  /\ [][(currentStep = "review" /\ currentStep' = "assign")
        => selectedParticipantIndex' = NullIndex]_vars
  /\ [][(currentStep = "results" /\ currentStep' = "landing")
        => selectedParticipantIndex' = NullIndex]_vars

\* the assign step entered from the results, the last picker index selected
C38_Witness ==
  /\ currentStep = "assign"
  /\ splitResults # NullResults
  /\ selectedParticipantIndex # NullIndex
  /\ selectedParticipantIndex = Len(ValidParticipants(participants)) - 1

(***************************************************************************)
(* C39.  The participants list has at least one slot.  removeParticipant   *)
(* called on a list of one slot leaves the list and the assignment map as  *)
(* they were; addParticipant appends one blank slot and leaves the         *)
(* assignment map as it was; after resetApp the list is one blank slot.    *)
(***************************************************************************)
C39_AtLeastOneSlot ==
  /\ Len(participants) >= 1
  /\ (lastOp.op = "removeParticipant" /\ Len(lastOp.before.participants) = 1)
       => /\ participants = lastOp.before.participants
          /\ itemAssignments = lastOp.before.itemAssignments
  /\ lastOp.op = "addParticipant"
       => /\ participants = Append(lastOp.before.participants, "")
          /\ itemAssignments = lastOp.before.itemAssignments
  /\ lastOp.op = "resetApp" => participants = <<"">>

\* removeParticipant was called on the only slot, which holds a share
C39_Witness ==
  /\ lastOp.op = "removeParticipant"
  /\ Len(lastOp.before.participants) = 1
  /\ ShareIn(lastOp.before.itemAssignments, 0, 0) > 0

====
